---- MODULE Spec2Model ----
(***************************************************************************)
(* Session / protocol layer of Agentmonitor.                               *)
(*                                                                         *)
(*  - pass-through variant: WorkspaceSession and the stdout reader task    *)
(*    of spawn_workspace_session (src-tauri/src/backend/app_server.rs)     *)
(*  - translating variant: ClaudeAdapterSession, one transient process per *)
(*    turn (src-tauri/src/backend/claude_adapter.rs)                       *)
(*                                                                         *)
(* Tasks are scheduled cooperatively: a task runs from one suspension      *)
(* point to the next without interruption.  Suspension points are reads    *)
(* from and writes to pipes, waits on a oneshot channel, waits for a       *)
(* process, and the acquisition of a lock: the stdin lock and the active-  *)
(* turn lock are held across suspension points, so a task may have to wait *)
(* for them.  The pending and callback tables are locked only for          *)
(* a lookup, insert or remove, so the reader tasks never wait for them.    *)
(***************************************************************************)
EXTENDS Integers, Sequences, FiniteSets, TLC

\* ------------------------------------------------------------------ bounds
NumCallers  == 2    \* concurrent callers of a ready session (besides the handshake)
MaxRequests == 3    \* send_request calls per session (caps next_id)
MaxMsgs     == 4    \* outbound messages per session
MaxLines    == 2    \* stdout lines the process writes per session
MaxTurns    == 2    \* turn/start calls per adapter
MaxInterrupts == 1  \* turn/interrupt and kill calls per adapter
MaxTurnLines == 2   \* stdout lines one turn's process writes
MaxStoreOps == 3    \* thread requests per adapter
MaxErrLines == 2       \* stderr lines the diagnostic reader takes
MaxClock    == 2    \* seconds now_epoch() counts

Threads == {"t1", "t2"}
BgThreads == {"t1"}      \* threads used for background generation
NoThread == "none"

Free == -1          \* value of a lock variable when nobody holds the lock
NoValue == [form |-> "empty"]          \* a oneshot channel nothing was sent on
Ok == [form |-> "ok"]                  \* Ok(()) of a write
WriteError == [form |-> "write_error"] \* Err(e.to_string()) of a write
NoResult == [form |-> "pending"]       \* the call has not returned
RequestCanceled == [form |-> "request canceled"]  \* Err of send_request, line 63
NoLine == [form |-> "none"]            \* no stdout line was read yet

VARIABLES
    variant,        \* "spawning" (handshake under way) | "passthrough" | "translating"
    \* ---- WorkspaceSession (app_server.rs:36-44) and spawn_workspace_session
    phase,          \* "handshake" | "ready" | "failed"
    next_id,        \* WorkspaceSession.next_id
    pending,        \* key set of WorkspaceSession.pending
    slot,           \* id -> value sent on the oneshot channel registered under id
    resolved,       \* id -> number of tx.send calls made for id
    returned,       \* ids whose send_request returned or was dropped by its caller
    cpc, cop, cid, cmsg, cres,   \* per caller: position, operation, id, message, result
    nstarted,       \* operations started so far (serial number of outbound messages)
    stdinLock,      \* holder of WorkspaceSession.stdin's Mutex
    stdinOpen,      \* the process still reads its stdin
    stdinBytes,     \* chunks that reached the process's stdin: <<message, part>>
    answered,       \* id -> the response line read while the entry for id was pending
    nlines,         \* stdout lines read so far
    last_line,      \* the stdout line read last
    rpc,            \* stdout reader task: "read" | "done"
    \* ---- ClaudeAdapterSession (claude_adapter.rs:218-227)
    active_child,   \* ClaudeAdapterSession.active_child: 0 (None) or the turn whose Child it holds
    childLock,      \* holder of active_child's Mutex: a caller c, a reader -k, or NoHolder
    apc,            \* per adapter caller: position in its request
    aheld,          \* per caller: the child its call took out of active_child
    aturn,          \* per caller: turn id of its turn/start
    nturns,         \* turn ids handed out so far
    nints,          \* turn/interrupt and kill calls so far
    proc,           \* turn -> "none" | "running" | "exited"
    tthread,        \* turn -> thread id the turn was started on
    rdr,            \* turn -> reader task: "none" | "loop" | "lock" | "wait" | "done"
    got_result,     \* turn -> got_result of its reader task
    rheld,          \* turn -> the child its reader took out of active_child
    nout,           \* turn -> stdout lines read so far
    interrupted,    \* turns whose process a returned turn/interrupt or kill has killed
    \* ---- ThreadStore (claude_adapter.rs:19-49) and what is observed of it
    store,          \* ClaudeAdapterSession.thread_store: thread id -> ThreadMetadata
    disk,           \* the persisted document at thread_store_path
    clock,          \* what now_epoch() returns
    resume,         \* turn -> session_id its turn/start read from the store
    reply,          \* the reply to the last thread request of the adapter
    nops,           \* thread requests made so far
    \* ---- the CLI process of a pass-through session
    cli,            \* its name, WorkspaceSession.child and the helper processes
                    \* the child has spawned
    error,          \* the Err spawn_workspace_session returned
    \* ---- a background generation (gemini/mod.rs)
    bpc,            \* where the operation is
    bturn,          \* the id of its turn/start request
    bread,          \* events it has received from its channel
    bexit,          \* the way it left the collection of events
    \* ---- the diagnostic reader of spawn_workspace_session (app_server.rs:671-688)
    epc,            \* "read" | "done"
    nerr,           \* stderr lines taken from the pipe so far
    last_err,       \* the stderr line taken last
    \* ---- shared by both variants
    callbacks,      \* key set of background_thread_callbacks
    delivered       \* turn -> the turn's events in delivery order, each with its
                    \* destination; turn 0 holds the events that belong to no turn

sessVars == <<phase, next_id, pending, slot, resolved, returned, cpc, cop, cid, cmsg,
              cres, nstarted, stdinLock, stdinOpen, stdinBytes, answered, nlines,
              last_line, rpc>>
routeVars == <<callbacks, delivered>>
adVars == <<active_child, childLock, apc, aheld, aturn, nturns, nints, proc,
            tthread, rdr, got_result, rheld, nout, interrupted>>
cliVars == <<cli, error>>
bgVars == <<bpc, bturn, bread, bexit>>
errVars == <<epc, nerr, last_err>>
storeVars == <<store, disk, clock, resume, reply, nops>>
vars == <<variant, sessVars, adVars, routeVars, storeVars, cliVars, bgVars, errVars>>

Callers == 0 .. NumCallers       \* caller 0 is spawn_workspace_session itself
Ids == 1 .. MaxRequests
AdCallers == 1 .. NumCallers     \* callers of the adapter's send_request and kill
Turns == 1 .. MaxTurns
NoHolder == 0

\* ------------------------------------------------------------ wire messages
\* A stdout line: blank, not JSON, or a JSON object.  id = 0 stands for "no
\* numeric id" (absent, or not an unsigned integer); roe tells whether the
\* object has a "result" or an "error" member; params holds the three places
\* where a thread id may be spelled.
NoParams == [threadId |-> NoThread, thread_id |-> NoThread, thread |-> NoThread]
ParamShapes ==
    {NoParams,
     [NoParams EXCEPT !.threadId = "t1"],
     [NoParams EXCEPT !.thread_id = "t2"],
     [NoParams EXCEPT !.thread = "t1"]}

\* requests (id 2) and notifications of the process, every spelling of the thread
EventLines == [form : {"json"}, id : {0, 2}, has_method : {TRUE},
               roe : {"none"}, params : ParamShapes]
\* responses and acknowledgments for every id a session hands out
ResponseLines == [form : {"json"}, id : 1 .. MaxRequests, has_method : {FALSE},
                  roe : {"none", "result", "error"}, params : {NoParams}]
\* a response that also has a method and names a thread; an object with nothing
OddLines == {[form |-> "json", id |-> 2, has_method |-> TRUE, roe |-> "result",
              params |-> [NoParams EXCEPT !.threadId = "t1"]],
             [form |-> "json", id |-> 0, has_method |-> FALSE, roe |-> "none",
              params |-> NoParams]}
JsonLines == EventLines \cup ResponseLines \cup OddLines
\* blank: empty or white space; malformed: text that is not JSON; bad_utf8:
\* bytes that are not UTF-8 text, for which next_line() returns an error
Lines == JsonLines \cup {[form |-> "blank"], [form |-> "malformed"],
                        [form |-> "bad_utf8"]}

\* a member that is present and is not a string (a number, null, an object)
NotAString == "not a string"
\* a message without a "params" member
AbsentParams == [absent |-> TRUE]
\* what the three members may hold: nothing, something that is no string, a
\* thread id; `thread` stands for what thread.id holds
ParamValues == [threadId : {NoThread, NotAString} \cup Threads,
                thread_id : {NoThread, NotAString} \cup Threads,
                thread : {NoThread, NotAString} \cup Threads]
\* notifications of the process with every content of params
ExtractLines == [form : {"json"}, id : {0}, has_method : {TRUE}, roe : {"none"},
                 params : ParamValues \cup {AbsentParams}]

\* Value::as_str: the string, or nothing for a value that is no string
as_str(v) == IF v = NotAString THEN NoThread ELSE v

\* extract_thread_id, lines 19-34: get("threadId"), or else get("thread_id"),
\* of which the string is taken; when that gives nothing, thread.id
extract_thread_id(value) ==
    IF value.params = AbsentParams THEN NoThread
    ELSE LET params == value.params
             first == IF params.threadId # NoThread THEN params.threadId
                                                     ELSE params.thread_id
         IN IF as_str(first) # NoThread THEN as_str(first)
                                         ELSE as_str(params.thread)

Event(method, thread, turn, id) ==
    [m |-> method, thread |-> thread, turn |-> turn, id |-> id]

\* what is recorded of a delivery: the event, its destination ("main": the
\* main event sink, "bg": the channel registered for its thread), whether a
\* channel was registered for its thread at that moment, and whether the
\* event's turn had been interrupted by then
Delivery(ev, dest) ==
    [ev |-> ev, dest |-> dest, covered |-> ev.thread \in callbacks,
     late |-> ev.turn \in interrupted]

Deliver(ev, dest) ==
    delivered' = [delivered EXCEPT ![ev.turn] = Append(@, Delivery(ev, dest))]

MainSink(k) == SelectSeq(delivered[k], LAMBDA d : d.dest = "main")

\* -------------------------------------------------------------------- Init
\* the event that announces a session, as recorded on the main sink
Connected(method) ==
    [ev |-> Event(method, NoThread, 0, 0), dest |-> "main", covered |-> FALSE,
     late |-> FALSE]

InitRoute ==
    /\ callbacks = {}
    /\ delivered = [k \in 0 .. MaxTurns |-> <<>>]

\* Option<String>: a text is a sequence of tokens
None == [some |-> FALSE, text |-> <<>>]
Some(text) == [some |-> TRUE, text |-> text]
Names == {<<>>, <<"n">>}

\* ThreadStore::default(), reached through load() when no document exists,
\* and the fields that only observe the store
NoReply == [method |-> "none", thread |-> NoThread, result |-> "none", listed |-> {}]
InitStore ==
    /\ store = [t \in {} |-> None]
    /\ disk = [kind |-> "absent", doc |-> {}]
    /\ clock = 1
    /\ resume = [k \in Turns |-> None]
    /\ reply = NoReply
    /\ nops = 0

\* no background generation under way
InitBg ==
    /\ bpc = "none"
    /\ bturn = 0
    /\ bread = 0
    /\ bexit = "none"

\* the diagnostic reader before its first line
InitErr ==
    /\ epc = "read"
    /\ nerr = 0
    /\ last_err = NoLine

InitAdapterVars ==
    /\ InitStore
    /\ InitBg
    /\ InitErr
    /\ active_child = 0
    /\ childLock = NoHolder
    /\ apc = [c \in AdCallers |-> "idle"]
    /\ aheld = [c \in AdCallers |-> 0]
    /\ aturn = [c \in AdCallers |-> 0]
    /\ nturns = 0
    /\ nints = 0
    /\ proc = [k \in Turns |-> "none"]
    /\ tthread = [k \in Turns |-> NoThread]
    /\ rdr = [k \in Turns |-> "none"]
    /\ got_result = [k \in Turns |-> FALSE]
    /\ rheld = [k \in Turns |-> 0]
    /\ nout = [k \in Turns |-> 0]
    /\ interrupted = {}

\* lines 516-521: the CLI a pass-through session runs
CliNames == {"cursor", "claude", "gemini"}

\* the session's process: the child command.spawn() returned (line 578) and
\* the helper processes that child has started
Cli(cli_name, child) == [name |-> cli_name, child |-> child, helpers |-> "none"]

\* lines 707-711
display_name(cli_name) ==
    CASE cli_name = "cursor" -> "Cursor"
      [] cli_name = "claude" -> "Claude Code"
      [] OTHER -> "Gemini"

\* the Err(String) spawn_workspace_session returns: the text of line 714 with
\* the display name it starts with, or the error of a failed write
NoError == [kind |-> "none", names |-> ""]
DidNotRespond(cli_name) == [kind |-> "did not respond to initialize",
                            names |-> display_name(cli_name)]
WriteFailed == [kind |-> "write", names |-> ""]

\* spawn_workspace_session, lines 583-594: the session as constructed, the
\* reader tasks spawned, the handshake not yet started
InitHandshake ==
    /\ variant = "spawning"
    /\ phase = "handshake"
    /\ next_id = 1
    /\ pending = {}
    /\ slot = [i \in Ids |-> NoValue]
    /\ resolved = [i \in Ids |-> 0]
    /\ returned = {}
    /\ cpc = [c \in Callers |-> "idle"]
    /\ cop = [c \in Callers |-> "none"]
    /\ cid = [c \in Callers |-> 0]
    /\ cmsg = [c \in Callers |-> 0]
    /\ cres = [c \in Callers |-> NoResult]
    /\ nstarted = 0
    /\ stdinLock = Free
    /\ stdinOpen = TRUE
    /\ stdinBytes = <<>>
    /\ answered = [i \in Ids |-> NoValue]
    /\ nlines = 0
    /\ last_line = NoLine
    /\ rpc = "read"
    /\ \E cli_name \in CliNames : cli = Cli(cli_name, "running")
    /\ error = NoError
    /\ InitRoute
    /\ InitAdapterVars

\* the session spawn_workspace_session returns (line 730): the handshake
\* used id 1 and wrote two lines, its response was received, cli/connected
\* was emitted
InitResponse == [form |-> "json", id |-> 1, has_method |-> FALSE, roe |-> "result",
                 params |-> NoParams]

InitSession ==
    /\ variant = "passthrough"
    /\ phase = "ready"
    /\ next_id = 2
    /\ pending = {}
    /\ slot = [i \in Ids |-> IF i = 1 THEN InitResponse ELSE NoValue]
    /\ resolved = [i \in Ids |-> IF i = 1 THEN 1 ELSE 0]
    /\ returned = {1}
    /\ cpc = [c \in Callers |-> IF c = 0 THEN "done" ELSE "idle"]
    /\ cop = [c \in Callers |-> IF c = 0 THEN "notification" ELSE "none"]
    /\ cid = [c \in Callers |-> IF c = 0 THEN 1 ELSE 0]
    /\ cmsg = [c \in Callers |-> IF c = 0 THEN 2 ELSE 0]
    /\ cres = [c \in Callers |-> IF c = 0 THEN Ok ELSE NoResult]
    /\ nstarted = 2
    /\ stdinLock = Free
    /\ stdinOpen = TRUE
    /\ stdinBytes = <<<<1, 1>>, <<1, 2>>, <<2, 1>>, <<2, 2>>>>
    /\ answered = [i \in Ids |-> IF i = 1 THEN InitResponse ELSE NoValue]
    /\ nlines = 0
    /\ last_line = NoLine
    /\ rpc = "read"
    /\ cli = Cli("gemini", "running")
    /\ error = NoError
    /\ callbacks = {}
    /\ delivered = [k \in 0 .. MaxTurns |->
                      IF k = 0 THEN <<Connected("cli/connected")>> ELSE <<>>]
    /\ InitAdapterVars

\* spawn_claude_session, lines 632-638, and ClaudeAdapterSession::new: no
\* process, no pipe; requests go to the adapter
InitAdapter ==
    /\ variant = "translating"
    /\ phase = "ready"
    /\ next_id = 1
    /\ pending = {}
    /\ slot = [i \in Ids |-> NoValue]
    /\ resolved = [i \in Ids |-> 0]
    /\ answered = [i \in Ids |-> NoValue]
    /\ returned = {}
    /\ cpc = [c \in Callers |-> "done"]
    /\ cop = [c \in Callers |-> "none"]
    /\ cid = [c \in Callers |-> 0]
    /\ cmsg = [c \in Callers |-> 0]
    /\ cres = [c \in Callers |-> NoResult]
    /\ nstarted = 0
    /\ stdinLock = Free
    /\ stdinOpen = FALSE
    /\ stdinBytes = <<>>
    /\ nlines = 0
    /\ last_line = NoLine
    /\ rpc = "done"
    /\ cli = Cli("claude", "none")
    /\ error = NoError
    /\ callbacks = {}
    /\ delivered = [k \in 0 .. MaxTurns |->
                      IF k = 0 THEN <<Connected("codex/connected")>> ELSE <<>>]
    /\ InitAdapterVars

\* ------------------------------------------------- background registration
\* callbacks.insert(thread_id, tx) under the table's lock
register_callback(t) ==
    /\ t \notin callbacks
    /\ callbacks' = callbacks \cup {t}
    /\ UNCHANGED delivered

\* a removal that leaves the entry in the table
unregister_callback_Keeps(t) ==
    /\ callbacks' = callbacks
    /\ UNCHANGED delivered

\* callbacks.remove(&thread_id) under the table's lock; idempotent
unregister_callback(t) ==
    /\ callbacks' = callbacks \ {t}
    /\ UNCHANGED delivered

\* --------------------------------------------------------- WorkspaceSession
\* how a finished operation hands its result back to its caller
\* a call that returns Ok(()) where its write failed
Ret_SwallowsError(c, r) ==
    /\ cres' = [cres EXCEPT ![c] = IF r = WriteError THEN Ok ELSE r]
    /\ cpc' = [cpc EXCEPT ![c] =
                 IF c # 0 THEN "idle"
                 ELSE IF cop[c] = "request" THEN "hs_response" ELSE "hs_notified"]
    /\ returned' = IF cop[c] = "request" THEN returned \cup {cid[c]} ELSE returned

Ret(c, r) ==
    /\ cres' = [cres EXCEPT ![c] = r]
    /\ cpc' = [cpc EXCEPT ![c] =
                 IF c # 0 THEN "idle"
                 ELSE IF cop[c] = "request" THEN "hs_response" ELSE "hs_notified"]
    /\ returned' = IF cop[c] = "request" THEN returned \cup {cid[c]} ELSE returned

\* Callers are interchangeable: a new call is given to the first caller
\* that has no call under way.
CanStart(c) ==
    /\ cpc[c] = "idle"
    /\ \A d \in Callers \ {0} : d < c => cpc[d] # "idle"
    /\ nstarted < MaxMsgs
    /\ IF c = 0 THEN variant = "spawning" /\ phase = "handshake" /\ cop[0] = "none"
                ELSE variant = "passthrough" /\ phase = "ready"

\* send_request with next_id.load() in place of next_id.fetch_add(1)
send_request_insert_NoIncrement(c) ==
    /\ CanStart(c)
    /\ next_id <= MaxRequests
    /\ cid' = [cid EXCEPT ![c] = next_id]
    /\ next_id' = next_id
    /\ pending' = pending \cup {next_id}
    /\ cop' = [cop EXCEPT ![c] = "request"]
    /\ cpc' = [cpc EXCEPT ![c] = "lock"]
    /\ nstarted' = nstarted + 1
    /\ cmsg' = [cmsg EXCEPT ![c] = nstarted + 1]
    /\ UNCHANGED <<phase, slot, resolved, returned, cres, stdinLock, stdinOpen,
                   stdinBytes, answered, nlines, rpc,
                   last_line>>
    /\ UNCHANGED <<variant, adVars, routeVars, storeVars, cliVars, bgVars, errVars>>

\* a send_request that goes on to write without registering its entry
send_request_insert_NoEntry(c) ==
    /\ CanStart(c)
    /\ next_id <= MaxRequests
    /\ cid' = [cid EXCEPT ![c] = next_id]
    /\ next_id' = next_id + 1
    /\ cop' = [cop EXCEPT ![c] = "request"]
    /\ cpc' = [cpc EXCEPT ![c] = "lock"]
    /\ nstarted' = nstarted + 1
    /\ cmsg' = [cmsg EXCEPT ![c] = nstarted + 1]
    /\ UNCHANGED <<phase, pending, slot, resolved, returned, cres, stdinLock, stdinOpen,
                   stdinBytes, answered, nlines, rpc, last_line>>
    /\ UNCHANGED <<variant, adVars, routeVars, storeVars, cliVars, bgVars, errVars>>

\* send_request, lines 58-60: id = next_id.fetch_add(1), then
\* pending.lock().await.insert(id, tx)
send_request_insert(c) ==
    /\ CanStart(c)
    /\ next_id <= MaxRequests
    /\ cid' = [cid EXCEPT ![c] = next_id]
    /\ next_id' = next_id + 1
    /\ pending' = pending \cup {next_id}
    /\ cop' = [cop EXCEPT ![c] = "request"]
    /\ cpc' = [cpc EXCEPT ![c] = "lock"]
    /\ nstarted' = nstarted + 1
    /\ cmsg' = [cmsg EXCEPT ![c] = nstarted + 1]
    /\ UNCHANGED <<phase, slot, resolved, returned, cres, stdinLock, stdinOpen,
                   stdinBytes, answered, nlines, rpc,
                   last_line>>
    /\ UNCHANGED <<variant, adVars, routeVars, storeVars, cliVars, bgVars, errVars>>

\* send_notification / send_response: build the value, then write_message
send_other(c, op) ==
    /\ c # 0
    /\ CanStart(c)
    /\ cop' = [cop EXCEPT ![c] = op]
    /\ cpc' = [cpc EXCEPT ![c] = "lock"]
    /\ nstarted' = nstarted + 1
    /\ cmsg' = [cmsg EXCEPT ![c] = nstarted + 1]
    /\ UNCHANGED <<phase, next_id, pending, slot, resolved, returned, cid, cres, stdinLock,
                   stdinOpen, stdinBytes, answered, nlines, rpc,
                   last_line>>
    /\ UNCHANGED <<variant, adVars, routeVars, storeVars, cliVars, bgVars, errVars>>

send_notification(c) == send_other(c, "notification")

send_response(c) == send_other(c, "response")

\* write_message, line 48: let mut stdin = self.stdin.lock().await
write_message_lock(c) ==
    /\ cpc[c] = "lock"
    /\ stdinLock = Free
    /\ stdinLock' = c
    /\ cpc' = [cpc EXCEPT ![c] = "w1"]
    /\ UNCHANGED <<phase, next_id, pending, slot, resolved, returned, cop, cid, cmsg, cres,
                   nstarted, stdinOpen, stdinBytes, answered, nlines, rpc,
                   last_line>>
    /\ UNCHANGED <<variant, adVars, routeVars, storeVars, cliVars, bgVars, errVars>>

\* write_message with the guard dropped after the first write of a line
write_message_write_all_EarlyUnlock(c) ==
    /\ cpc[c] \in {"w1", "w2"}
    /\ cpc[c] = "w1" => stdinLock = c
    /\ IF ~stdinOpen
          THEN /\ stdinLock' = IF stdinLock = c THEN Free ELSE stdinLock
               /\ Ret(c, WriteError)
               /\ UNCHANGED stdinBytes
          ELSE /\ stdinBytes' = Append(stdinBytes, <<cmsg[c], IF cpc[c] = "w1" THEN 1 ELSE 2>>)
               /\ IF cpc[c] = "w1"
                     THEN /\ cpc' = [cpc EXCEPT ![c] = "w2"]
                          /\ stdinLock' = Free
                          /\ UNCHANGED <<cres, returned>>
                     ELSE /\ UNCHANGED stdinLock
                          /\ IF cop[c] = "request"
                                THEN /\ cpc' = [cpc EXCEPT ![c] = "await"]
                                     /\ UNCHANGED <<cres, returned>>
                                ELSE Ret(c, Ok)
    /\ UNCHANGED <<phase, next_id, pending, slot, resolved, cop, cid, cmsg, nstarted,
                   stdinOpen, answered, nlines, rpc,
                   last_line>>
    /\ UNCHANGED <<variant, adVars, routeVars, storeVars, cliVars, bgVars, errVars>>

\* write_message, lines 51-54: write_all moves the line into the pipe in
\* one or more writes (two here); the guard is released when it returns.
write_message_write_all(c) ==
    /\ cpc[c] \in {"w1", "w2"}
    /\ stdinLock = c
    /\ IF ~stdinOpen
          THEN \* Err(e.to_string()): "?" in send_request returns it at once
               /\ stdinLock' = Free
               /\ Ret(c, WriteError)
               /\ UNCHANGED stdinBytes
          ELSE /\ stdinBytes' = Append(stdinBytes, <<cmsg[c], IF cpc[c] = "w1" THEN 1 ELSE 2>>)
               /\ IF cpc[c] = "w1"
                     THEN /\ cpc' = [cpc EXCEPT ![c] = "w2"]
                          /\ UNCHANGED <<stdinLock, cres, returned>>
                     ELSE /\ stdinLock' = Free
                          /\ IF cop[c] = "request"
                                THEN /\ cpc' = [cpc EXCEPT ![c] = "await"]
                                     /\ UNCHANGED <<cres, returned>>
                                ELSE Ret(c, Ok)
    /\ UNCHANGED <<phase, next_id, pending, slot, resolved, cop, cid, cmsg, nstarted,
                   stdinOpen, answered, nlines, rpc,
                   last_line>>
    /\ UNCHANGED <<variant, adVars, routeVars, storeVars, cliVars, bgVars, errVars>>

\* rx.await of a oneshot receiver: Ok(value) once a value was sent; an error
\* once the sender was dropped without sending, which line 63 maps to
\* "request canceled".  The sender lives in the pending table until the
\* reader removes it and sends on it.
rx_await_Canceled(id) == RequestCanceled
rx_await(id) ==
    IF slot[id] # NoValue THEN slot[id] ELSE RequestCanceled

\* send_request, line 63: rx.await wakes when the value was sent or the
\* sender dropped
send_request_await(c) ==
    /\ cpc[c] = "await"
    /\ slot[cid[c]] # NoValue \/ cid[c] \notin pending
    /\ Ret(c, rx_await(cid[c]))
    /\ UNCHANGED <<phase, next_id, pending, slot, resolved, cop, cid, cmsg, nstarted,
                   stdinLock, stdinOpen, stdinBytes, answered, nlines, rpc,
                   last_line>>
    /\ UNCHANGED <<variant, adVars, routeVars, storeVars, cliVars, bgVars, errVars>>

\* the process closes its stdin or exits
proc_close_stdin ==
    /\ variant \in {"spawning", "passthrough"}
    /\ stdinOpen
    /\ stdinOpen' = FALSE
    /\ UNCHANGED <<phase, next_id, pending, slot, resolved, returned, cpc, cop, cid, cmsg,
                   cres, nstarted, stdinLock, stdinBytes, answered, nlines, rpc,
                   last_line>>
    /\ UNCHANGED <<variant, adVars, routeVars, storeVars, cliVars, bgVars, errVars>>

\* ------------------------------------------------- spawn_workspace_session
\* lines 697-717: the 15 s timeout expires while send_request("initialize")
\* is pending: the future is dropped where it stands, the child is killed
\* tokio::process::Child::kill, line 706: the child is killed and reaped;
\* processes the child has started are not signalled
kill(c) == [c EXCEPT !.child = "killed"]

\* the CLI starts a helper process
cli_spawns_helper ==
    /\ phase = "handshake"
    /\ cli.child = "running"
    /\ cli.helpers = "none"
    /\ cli' = [cli EXCEPT !.helpers = "running"]
    /\ UNCHANGED <<error, variant, sessVars, adVars, routeVars, storeVars, bgVars, errVars>>

handshake_timeout ==
    /\ phase = "handshake"
    /\ cop[0] = "request"
    /\ cpc[0] \in {"lock", "w1", "w2", "await"}
    /\ cpc' = [cpc EXCEPT ![0] = "abandoned"]
    /\ returned' = returned \cup {cid[0]}
    /\ stdinLock' = IF stdinLock = 0 THEN Free ELSE stdinLock
    /\ stdinOpen' = FALSE
    /\ phase' = "failed"
    /\ cli' = kill(cli)
    /\ error' = DidNotRespond(cli.name)
    /\ UNCHANGED <<next_id, pending, slot, resolved, cop, cid, cmsg, cres, nstarted,
                   stdinBytes, answered, nlines, rpc,
                   last_line>>
    /\ UNCHANGED <<variant, adVars, routeVars, storeVars, bgVars, errVars>>

\* lines 702-719: init_response?; session.send_notification("initialized", None)
handshake_response ==
    /\ cpc[0] = "hs_response"
    /\ IF cres[0] = WriteError
          THEN /\ phase' = "failed"
               /\ error' = WriteFailed
               /\ cpc' = [cpc EXCEPT ![0] = "done"]
               /\ UNCHANGED <<cop, cmsg, nstarted>>
          ELSE /\ cop' = [cop EXCEPT ![0] = "notification"]
               /\ cpc' = [cpc EXCEPT ![0] = "lock"]
               /\ nstarted' = nstarted + 1
               /\ cmsg' = [cmsg EXCEPT ![0] = nstarted + 1]
               /\ UNCHANGED <<phase, error>>
    /\ UNCHANGED <<next_id, pending, slot, resolved, returned, cid, cres, stdinLock,
                   stdinOpen, stdinBytes, answered, nlines, rpc,
                   last_line>>
    /\ UNCHANGED <<variant, adVars, routeVars, storeVars, cli, bgVars, errVars>>

\* lines 719-730: "?" on the notification, then the cli/connected event, Ok(session)
handshake_connected ==
    /\ cpc[0] = "hs_notified"
    /\ cpc' = [cpc EXCEPT ![0] = "done"]
    /\ IF cres[0] = Ok
          THEN /\ phase' = "ready"
               /\ Deliver(Event("cli/connected", NoThread, 0, 0), "main")
               /\ UNCHANGED error
          ELSE /\ phase' = "failed"
               /\ error' = WriteFailed
               /\ UNCHANGED delivered
    /\ UNCHANGED <<next_id, pending, slot, resolved, returned, cop, cid, cmsg, cres,
                   nstarted, stdinLock, stdinOpen, stdinBytes, answered, nlines, rpc,
                   last_line>>
    /\ UNCHANGED <<variant, adVars, callbacks, storeVars, cli, bgVars, errVars>>

\* ------------------------------------------------------- stdout reader task
\* the reader with a lookup that leaves the entry in the table
ResolvePending_KeepEntry(id, value) ==
    IF id \in pending
       THEN /\ pending' = pending
            /\ slot' = [slot EXCEPT ![id] = value]
            /\ resolved' = [resolved EXCEPT ![id] = @ + 1]
       ELSE UNCHANGED <<pending, slot, resolved>>

\* a resolution that fills the slot of an id that has no entry
ResolvePending_FillsOnMiss(id, value) ==
    /\ pending' = pending \ {id}
    /\ slot' = [slot EXCEPT ![id] = value]
    /\ resolved' = [resolved EXCEPT ![id] = @ + 1]

\* a resolution that takes responses only and drops acknowledgments
ResolvePending_ResponsesOnly(id, value) ==
    IF id \in pending /\ value.roe # "none"
       THEN /\ pending' = pending \ {id}
            /\ slot' = [slot EXCEPT ![id] = value]
            /\ resolved' = [resolved EXCEPT ![id] = @ + 1]
       ELSE UNCHANGED <<pending, slot, resolved>>

\* lines 625-627 and 646-648: pending.lock().await.remove(&id), tx.send(value)
ResolvePending(id, value) ==
    IF id \in pending
       THEN /\ pending' = pending \ {id}
            /\ slot' = [slot EXCEPT ![id] = value]
            /\ resolved' = [resolved EXCEPT ![id] = @ + 1]
       ELSE UNCHANGED <<pending, slot, resolved>>

\* a routing that sends to the channel and emits on the main sink as well
RouteEvent_Both(ev) ==
    IF ev.thread # NoThread /\ ev.thread \in callbacks
       THEN delivered' = [delivered EXCEPT ![ev.turn] =
                             Append(Append(@, Delivery(ev, "bg")), Delivery(ev, "main"))]
       ELSE Deliver(ev, "main")

\* a routing that knows the main sink only
RouteEvent_MainOnly(ev) ==
    Deliver(ev, "main")

\* lines 630-645 and 651-666: the event goes to the channel registered for
\* its thread, or else to the main sink
RouteEvent(ev) ==
    IF ev.thread # NoThread /\ ev.thread \in callbacks
       THEN Deliver(ev, "bg")
       ELSE Deliver(ev, "main")

\* lines 597-667: one iteration of the loop on the line next_line() yields;
\* a line that is not UTF-8 makes next_line() fail, which ends the loop
reader_next_line(line) ==
    /\ variant \in {"spawning", "passthrough"}
    /\ rpc = "read"
    /\ nlines < MaxLines
    /\ nlines' = nlines + 1
    /\ last_line' = line
    /\ rpc' = IF line.form = "bad_utf8" THEN "done" ELSE "read"
    /\ answered' = IF line.form = "json" /\ line.id \in pending /\ line.roe # "none"
                      THEN [answered EXCEPT ![line.id] = line]
                      ELSE answered
    /\ CASE line.form \in {"blank", "bad_utf8"} ->
              UNCHANGED <<pending, slot, resolved, delivered>>
         [] line.form = "malformed" ->
              /\ Deliver(Event("cli/parseError", NoThread, 0, 0), "main")
              /\ UNCHANGED <<pending, slot, resolved>>
         [] OTHER ->
              LET maybe_id == line.id
                  has_result_or_error == line.roe # "none"
                  thread_id == extract_thread_id(line)
                  ev == Event(IF maybe_id # 0 THEN "request" ELSE "notification",
                              thread_id, 0, maybe_id)
              IN IF maybe_id # 0
                    THEN IF has_result_or_error
                            THEN /\ ResolvePending(maybe_id, line)
                                 /\ UNCHANGED delivered
                            ELSE IF line.has_method
                                    THEN /\ RouteEvent(ev)
                                         /\ UNCHANGED <<pending, slot, resolved>>
                                    ELSE /\ ResolvePending(maybe_id, line)
                                         /\ UNCHANGED delivered
                    ELSE IF line.has_method
                            THEN /\ RouteEvent(ev)
                                 /\ UNCHANGED <<pending, slot, resolved>>
                            ELSE UNCHANGED <<pending, slot, resolved, delivered>>
    /\ UNCHANGED <<phase, next_id, returned, cpc, cop, cid, cmsg, cres, nstarted,
                   stdinLock, stdinOpen, stdinBytes>>
    /\ UNCHANGED <<variant, adVars, callbacks, storeVars, cliVars, bgVars, errVars>>

\* line 597: next_line() yields Ok(None) or an I/O error: the task ends
reader_eof ==
    /\ variant \in {"spawning", "passthrough"}
    /\ rpc = "read"
    /\ rpc' = "done"
    /\ UNCHANGED <<phase, next_id, pending, slot, resolved, returned, cpc, cop, cid, cmsg,
                   cres, nstarted, stdinLock, stdinOpen, stdinBytes, answered, nlines,
                   last_line>>
    /\ UNCHANGED <<variant, adVars, routeVars, storeVars, cliVars, bgVars, errVars>>

\* what the process writes to stderr: a line of text, a line that is empty
\* or white space, bytes that are not UTF-8 text
ErrLines == {[form |-> "text"], [form |-> "blank"], [form |-> "bad_utf8"]}

\* lines 673-687: one iteration of the diagnostic reader's loop; as on
\* stdout, next_line() fails on a line that is not UTF-8 and the loop ends
stderr_next_line(line) ==
    /\ variant \in {"spawning", "passthrough"}
    /\ epc = "read"
    /\ nerr < MaxErrLines
    /\ nerr' = nerr + 1
    /\ last_err' = line
    /\ epc' = IF line.form = "bad_utf8" THEN "done" ELSE "read"
    /\ IF line.form = "text"
          THEN Deliver(Event("cli/stderr", NoThread, 0, 0), "main")
          ELSE UNCHANGED delivered
    /\ UNCHANGED <<variant, sessVars, adVars, callbacks, storeVars, cliVars, bgVars>>

\* next_line() yields Ok(None): stderr is closed
stderr_eof ==
    /\ variant \in {"spawning", "passthrough"}
    /\ epc = "read"
    /\ epc' = "done"
    /\ UNCHANGED <<nerr, last_err>>
    /\ UNCHANGED <<variant, sessVars, adVars, routeVars, storeVars, cliVars, bgVars>>

session_register(t) ==
    /\ variant = "passthrough"
    /\ phase = "ready"
    /\ register_callback(t)
    /\ UNCHANGED <<variant, sessVars, adVars, storeVars, cliVars, bgVars, errVars>>

session_unregister(t) ==
    /\ variant = "passthrough"
    /\ phase = "ready"
    /\ t \in callbacks
    /\ unregister_callback(t)
    /\ UNCHANGED <<variant, sessVars, adVars, storeVars, cliVars, bgVars, errVars>>

\* ---------------------------------------------------- background generation
\* generate_commit_message and generate_run_metadata (gemini/mod.rs) on a
\* ready session, from the point where thread/start has returned the id of
\* the background thread.  The operation is caller 1 of the session.
BgCaller == 1
bthread == CHOOSE t \in BgThreads : TRUE

\* what the operation has in its channel: the events delivered to it
BgChannel == SelectSeq(delivered[0], LAMBDA d : d.dest = "bg" /\ d.ev.thread = bthread)

\* the methods of the events the collection loop tells apart, lines 734-758
BgMethods == {"item/agentMessage/delta", "turn/completed", "turn/error"}

\* lines 682-689: the channel is created and registered for the thread
bg_register ==
    /\ variant = "passthrough"
    /\ phase = "ready"
    /\ bpc = "none"
    /\ register_callback(bthread)
    /\ bpc' = "registered"
    /\ UNCHANGED <<bturn, bread, bexit>>
    /\ UNCHANGED <<variant, sessVars, adVars, storeVars, cliVars, errVars>>

\* the operation with lines 682-689 moved behind the turn/start call
bg_turn_start_Unregistered ==
    /\ bpc \in {"none", "registered"}
    /\ variant = "passthrough"
    /\ cop[BgCaller] = "none"
    /\ send_request_insert(BgCaller)

\* lines 691-699: session.send_request("turn/start", turn_params)
bg_turn_start ==
    /\ bpc = "registered"
    /\ cop[BgCaller] = "none"
    /\ send_request_insert(BgCaller)

\* lines 700-726: the call has returned; Err(..) or a response with an
\* "error" member removes the callback, anything else starts the collection
bg_turn_result ==
    /\ bpc = "registered"
    /\ cop[BgCaller] = "request"
    /\ cpc[BgCaller] = "idle"
    /\ bturn' = cid[BgCaller]
    /\ IF cres[BgCaller].form # "json"
          THEN /\ unregister_callback(bthread)
               /\ bpc' = "unregistered"
               /\ bexit' = "turn/start failed"
          ELSE IF cres[BgCaller].roe = "error"
                  THEN /\ unregister_callback(bthread)
                       /\ bpc' = "unregistered"
                       /\ bexit' = "turn/start error"
                  ELSE /\ bpc' = "collect"
                       /\ UNCHANGED <<routeVars, bexit>>
    /\ UNCHANGED bread
    /\ UNCHANGED <<variant, sessVars, adVars, storeVars, cliVars, errVars>>

\* lines 734-758: rx.recv() yields the next event of the channel, or None
\* once the channel is closed and empty; turn/completed and turn/error end
\* the loop
bg_recv(method) ==
    /\ bpc = "collect"
    /\ IF bread < Len(BgChannel)
          THEN /\ bread' = bread + 1
               /\ bpc' = IF method = "item/agentMessage/delta" THEN "collect"
                                                                 ELSE "collected"
               /\ bexit' = IF method = "item/agentMessage/delta" THEN bexit ELSE method
          ELSE /\ bthread \notin callbacks
               /\ bpc' = "collected"
               /\ bexit' = "channel closed"
               /\ UNCHANGED bread
    /\ UNCHANGED bturn
    /\ UNCHANGED <<variant, sessVars, adVars, routeVars, storeVars, cliVars, errVars>>

\* lines 732-733, 760: the 60 s of the collection have passed
bg_timeout ==
    /\ bpc = "collect"
    /\ bpc' = "collected"
    /\ bexit' = "timeout"
    /\ UNCHANGED <<bturn, bread>>
    /\ UNCHANGED <<variant, sessVars, adVars, routeVars, storeVars, cliVars, errVars>>

\* lines 767-771: callbacks.remove(&thread_id)
bg_unregister ==
    /\ bpc = "collected"
    /\ unregister_callback(bthread)
    /\ bpc' = "unregistered"
    /\ UNCHANGED <<bturn, bread, bexit>>
    /\ UNCHANGED <<variant, sessVars, adVars, storeVars, cliVars, errVars>>

\* lines 709-710, 723-724, 773-775: session.send_request("thread/archive", ..)
bg_archive ==
    /\ bpc = "unregistered"
    /\ cid[BgCaller] = bturn
    /\ send_request_insert(BgCaller)

\* lines 711, 725, 777-788: the archive call has returned, the operation returns
bg_return ==
    /\ bpc = "unregistered"
    /\ cid[BgCaller] # bturn
    /\ cpc[BgCaller] = "idle"
    /\ bpc' = "done"
    /\ UNCHANGED <<bturn, bread, bexit>>
    /\ UNCHANGED <<variant, sessVars, adVars, routeVars, storeVars, cliVars, errVars>>

\* ------------------------------------------------------------ thread store
\* ThreadMetadata, lines 19-26
ThreadMetadata(claude_session_id, name, created_at, updated_at, archived) ==
    [claude_session_id |-> claude_session_id, name |-> name,
     created_at |-> created_at, updated_at |-> updated_at, archived |-> archived]

\* serde_json on an Option<String>: None is written as null, Some(text) as
\* a JSON string; on reading, null becomes None and a string Some(text)
to_json(opt) ==
    IF opt.some THEN [json |-> "string", text |-> opt.text]
                ELSE [json |-> "null", text |-> <<>>]
\* a reader that takes null for the empty text
from_json_NullAsEmpty(value) == Some(value.text)
from_json(value) ==
    IF value.json = "null" THEN None ELSE Some(value.text)

\* serde_json::to_string_pretty(self), line 46: the document is one object
\* "threads" with one member per thread, each an object of the five fields
to_string_pretty(threads) ==
    {[key |-> t,
      claude_session_id |-> to_json(threads[t].claude_session_id),
      name |-> to_json(threads[t].name),
      created_at |-> threads[t].created_at,
      updated_at |-> threads[t].updated_at,
      archived |-> threads[t].archived] : t \in DOMAIN threads}

\* serde_json::from_str, line 37
from_str(doc) ==
    [t \in {m.key : m \in doc} |->
        LET m == CHOOSE m \in doc : m.key = t IN
        ThreadMetadata(from_json(m.claude_session_id), from_json(m.name),
                       m.created_at, m.updated_at, m.archived)]

\* ThreadStore::load, lines 34-39: the document if it can be read and
\* parsed, the empty store otherwise
load(file) ==
    IF file.kind = "doc" THEN from_str(file.doc) ELSE [t \in {} |-> None]

\* ThreadStore::save, lines 41-48: the whole document is written; when
\* create_dir_all fails or fs::write cannot open the file, the file is as
\* it was
\* a save that reports what it is told to and writes nothing
save_WritesNothing(threads, saved) ==
    disk' = disk

save(threads, saved) ==
    \/ /\ saved = TRUE
       /\ disk' = [kind |-> "doc", doc |-> to_string_pretty(threads)]
    \/ /\ saved = FALSE
       /\ disk' = disk

\* an insert that puts the new record in place of the map
insert_Replaces(threads, t, meta) ==
    [x \in {t} |-> meta]

\* store.threads.insert(thread_id, meta)
insert(threads, t, meta) ==
    [x \in DOMAIN threads \cup {t} |-> IF x = t THEN meta ELSE threads[x]]

\* uuid::Uuid::new_v4(): an id no thread has; unused ids are interchangeable,
\* the first of them is taken
new_v4(t) ==
    /\ t \in Threads \ DOMAIN store
    /\ t = "t2" => "t1" \in DOMAIN store

\* what send_request returns for a thread request: Ok(..) or Err(..), the
\* thread id in the result, and for thread/list the ids listed
Reply(method, t, ok, listed) ==
    [method |-> method, thread |-> t, result |-> IF ok THEN "ok" ELSE "error",
     listed |-> listed]

ThreadRequest ==
    /\ variant = "translating"
    /\ \A c \in AdCallers : apc[c] = "idle"
    /\ nops < MaxStoreOps
    /\ nops' = nops + 1

\* send_request, lines 537-601: the methods answered with a fixed result,
\* the methods handed to a handler, and the requests drawn here
FixedMethods ==
    {"initialize", "thread/compact/start", "account/read", "account/rateLimits/read",
     "collaborationMode/list", "skills/list", "app/list", "mcpServerStatus/list"}
HandledMethods ==
    {"thread/start", "thread/resume", "thread/fork", "thread/list", "thread/archive",
     "thread/name/set", "turn/start", "turn/interrupt", "model/list"}
OtherMethods == {"account/read", "nonexistent/method"}

\* line 599: Err(format!("unsupported method: {method}"))
Unsupported(method) ==
    [method |-> method, thread |-> NoThread, result |-> "error", listed |-> {},
     message |-> <<"unsupported method: ", method>>]

\* a match whose last arm answers like the fixed methods
send_request_match_Fallback(method) ==
    Reply(method, NoThread, TRUE, {})

\* the arms of the match that call no handler
send_request_match(method) ==
    IF method \in FixedMethods
       THEN Reply(method, NoThread, TRUE, {})
       ELSE Unsupported(method)

\* send_request with a method that no handler takes
send_request_other(method) ==
    /\ ThreadRequest
    /\ method \notin HandledMethods
    /\ reply' = send_request_match(method)
    /\ UNCHANGED <<store, disk, clock, resume>>
    /\ UNCHANGED <<variant, sessVars, adVars, routeVars, cliVars, bgVars, errVars>>

\* handle_thread_start, lines 250-271: a fresh id, the metadata inserted,
\* the store saved; `?` returns the error of a failed save
handle_thread_start ==
    /\ ThreadRequest
    /\ \E t \in Threads, saved \in BOOLEAN :
          /\ new_v4(t)
          /\ store' = insert(store, t, ThreadMetadata(None, None, clock, clock, FALSE))
          /\ save(store', saved)
          /\ reply' = Reply("thread/start", t, saved, {})
    /\ UNCHANGED <<clock, resume>>
    /\ UNCHANGED <<variant, sessVars, adVars, routeVars, cliVars, bgVars, errVars>>

\* handle_thread_resume, lines 273-288
handle_thread_resume(t) ==
    /\ ThreadRequest
    /\ reply' = Reply("thread/resume", t, t \in DOMAIN store, {})
    /\ UNCHANGED <<store, disk, clock, resume>>
    /\ UNCHANGED <<variant, sessVars, adVars, routeVars, cliVars, bgVars, errVars>>

\* line 562: .ok_or("thread not found")?
ThreadNotFound(method) ==
    [method |-> method, thread |-> NoThread, result |-> "error", listed |-> {},
     message |-> "thread not found"]

\* a fork that takes the source's session id along
handle_thread_fork_CopiesSession(source_id) ==
    /\ ThreadRequest
    /\ IF source_id \notin DOMAIN store
          THEN /\ reply' = ThreadNotFound("thread/fork")
               /\ UNCHANGED <<store, disk>>
          ELSE \E new_id \in Threads, saved \in BOOLEAN :
                 LET source == store[source_id]
                     name == IF source.name.some
                                THEN Some(Append(source.name.text, " (fork)"))
                                ELSE None
                 IN /\ new_v4(new_id)
                    /\ store' = insert(store, new_id,
                                       ThreadMetadata(source.claude_session_id, name,
                                                      clock, clock, FALSE))
                    /\ save(store', saved)
                    /\ reply' = Reply("thread/fork", new_id, saved, {})
    /\ UNCHANGED <<clock, resume>>
    /\ UNCHANGED <<variant, sessVars, adVars, routeVars, cliVars, bgVars, errVars>>

\* send_request, "thread/fork", lines 550-577: the source must exist; the
\* copy has a fresh id, the source's name with " (fork)" appended, no
\* session id
handle_thread_fork(source_id) ==
    /\ ThreadRequest
    /\ IF source_id \notin DOMAIN store
          THEN /\ reply' = ThreadNotFound("thread/fork")
               /\ UNCHANGED <<store, disk>>
          ELSE \E new_id \in Threads, saved \in BOOLEAN :
                 LET source == store[source_id]
                     name == IF source.name.some
                                THEN Some(Append(source.name.text, " (fork)"))
                                ELSE None
                 IN /\ new_v4(new_id)
                    /\ store' = insert(store, new_id,
                                       ThreadMetadata(None, name, clock, clock, FALSE))
                    /\ save(store', saved)
                    /\ reply' = Reply("thread/fork", new_id, saved, {})
    /\ UNCHANGED <<clock, resume>>
    /\ UNCHANGED <<variant, sessVars, adVars, routeVars, cliVars, bgVars, errVars>>

\* handle_thread_list, lines 290-312: the threads that are not archived
handle_thread_list_All == DOMAIN store
handle_thread_list_result ==
    {t \in DOMAIN store : ~store[t].archived}

handle_thread_list ==
    /\ ThreadRequest
    /\ reply' = Reply("thread/list", NoThread, TRUE, handle_thread_list_result)
    /\ UNCHANGED <<store, disk, clock, resume>>
    /\ UNCHANGED <<variant, sessVars, adVars, routeVars, cliVars, bgVars, errVars>>

\* handle_thread_archive, lines 314-326: the flag is set if the thread
\* exists; the store is saved either way
handle_thread_archive(t) ==
    /\ ThreadRequest
    /\ store' = IF t \in DOMAIN store
                   THEN [store EXCEPT ![t] = [@ EXCEPT !.archived = TRUE,
                                                       !.updated_at = clock]]
                   ELSE store
    /\ \E saved \in BOOLEAN :
          /\ save(store', saved)
          /\ reply' = Reply("thread/archive", t, saved, {})
    /\ UNCHANGED <<clock, resume>>
    /\ UNCHANGED <<variant, sessVars, adVars, routeVars, cliVars, bgVars, errVars>>

\* handle_thread_name_set, lines 328-344: a missing name is the empty text
handle_thread_name_set(t, name) ==
    /\ ThreadRequest
    /\ store' = IF t \in DOMAIN store
                   THEN [store EXCEPT ![t] = [@ EXCEPT !.name = Some(name),
                                                       !.updated_at = clock]]
                   ELSE store
    /\ \E saved \in BOOLEAN :
          /\ save(store', saved)
          /\ reply' = Reply("thread/name/set", t, saved, {})
    /\ UNCHANGED <<clock, resume>>
    /\ UNCHANGED <<variant, sessVars, adVars, routeVars, cliVars, bgVars, errVars>>

\* now_epoch(), lines 51-56: the clock moves on; time is counted from the
\* creation of the first thread
now_epoch_advances ==
    /\ variant = "translating"
    /\ DOMAIN store # {}
    /\ clock < MaxClock
    /\ clock' = clock + 1
    /\ UNCHANGED <<store, disk, resume, reply, nops>>
    /\ UNCHANGED <<variant, sessVars, adVars, routeVars, cliVars, bgVars, errVars>>

\* ------------------------------------------------------ translating adapter
\* A turn's stdout line, by what parse_stream_json_line looks at: whether it
\* could be read as UTF-8 text, whether it is a JSON object, its "type", and
\* the subtype / delta.type / content_block.type that goes with the type.
TurnLine(utf8, json, type, sub) ==
    [utf8 |-> utf8, json |-> json, type |-> type, sub |-> sub, session_id |-> None]
InitLine      == [TurnLine(TRUE, TRUE, "system", "init") EXCEPT !.session_id = Some(<<"s1">>)]
\* an init record that carries another session id
InitLine2     == [TurnLine(TRUE, TRUE, "system", "init") EXCEPT !.session_id = Some(<<"s2">>)]
DeltaLine     == TurnLine(TRUE, TRUE, "content_block_delta", "text_delta")
ResultLine    == TurnLine(TRUE, TRUE, "result", "success")
UnknownLine   == TurnLine(TRUE, TRUE, "unknown_event", "")
BadUtf8Line   == TurnLine(FALSE, FALSE, "", "")
\* the lines a turn's process is let to write
TurnLines == {InitLine, ResultLine, BadUtf8Line}

NoMethod == "none"

\* a translation that also turns the delta of a tool's input into an event
parse_stream_json_line_ToolInput(line) ==
    IF ~line.json THEN NoMethod
    ELSE CASE line.type = "system" ->
                IF line.sub = "init" THEN "turn/started" ELSE NoMethod
           [] line.type = "content_block_delta" ->
                IF line.sub \in {"text_delta", "input_json_delta"}
                   THEN "item/agentMessage/delta" ELSE NoMethod
           [] line.type = "content_block_start" ->
                IF line.sub = "tool_use" THEN "item/started" ELSE NoMethod
           [] line.type = "tool_result" -> "item/completed"
           [] line.type = "result" -> "turn/completed"
           [] OTHER -> NoMethod

\* parse_stream_json_line, lines 108-202: the canonical method the line is
\* translated to, NoMethod where the code returns None
parse_stream_json_line(line) ==
    IF ~line.json THEN NoMethod
    ELSE CASE line.type = "system" ->
                IF line.sub = "init" THEN "turn/started" ELSE NoMethod
           [] line.type = "content_block_delta" ->
                IF line.sub = "text_delta" THEN "item/agentMessage/delta" ELSE NoMethod
           [] line.type = "content_block_start" ->
                IF line.sub = "tool_use" THEN "item/started" ELSE NoMethod
           [] line.type = "tool_result" -> "item/completed"
           [] line.type = "result" -> "turn/completed"
           [] OTHER -> NoMethod

\* kill_child_process_tree(&mut child).await: the process and its
\* descendants are killed and the child's exit is awaited; the value is the
\* processes as they are once it has returned
kill_child_process_tree(k) ==
    [proc EXCEPT ![k] = "exited"]

\* handle_turn_start, lines 415-434: build the command and spawn it, given
\* the processes as they are; either step may fail, which ends the call
SpawnTurn(c, procs) ==
    \/ /\ proc' = [procs EXCEPT ![aturn[c]] = "running"]
       /\ apc' = [apc EXCEPT ![c] = "ts_store"]
       /\ UNCHANGED aturn
    \/ /\ proc' = procs
       /\ apc' = [apc EXCEPT ![c] = "idle"]
       /\ aturn' = [aturn EXCEPT ![c] = 0]

\* Callers of the adapter are interchangeable: a new call is given to the
\* first caller that has no call under way.
AdCanStart(c) ==
    /\ variant = "translating"
    /\ apc[c] = "idle"
    /\ \A d \in AdCallers : d < c => apc[d] # "idle"

\* lines 398-404: the session id the store holds for the thread, None when
\* the thread is not in the store or has none
stored_session_id_Forgets(t) == None
stored_session_id(t) ==
    IF t \in DOMAIN store THEN store[t].claude_session_id ELSE None

\* handle_turn_start, lines 386-404: the parameters, a fresh turn id, the
\* stored resumable id; then it waits for the active-turn lock
turn_start_begin(c, t) ==
    /\ AdCanStart(c)
    /\ nturns < MaxTurns
    /\ nturns' = nturns + 1
    /\ aturn' = [aturn EXCEPT ![c] = nturns + 1]
    /\ tthread' = [tthread EXCEPT ![nturns + 1] = t]
    /\ apc' = [apc EXCEPT ![c] = "ts_lock"]
    /\ resume' = [resume EXCEPT ![nturns + 1] = stored_session_id(t)]
    /\ UNCHANGED <<active_child, childLock, aheld, nints, proc, rdr, got_result, rheld,
                   nout, interrupted>>
    /\ UNCHANGED <<variant, sessVars, routeVars, store, disk, clock, reply, nops, cliVars, bgVars, errVars>>

\* handle_turn_start without lines 406-413: the previous child is left alone
turn_start_take_NoKill(c) ==
    /\ apc[c] = "ts_lock"
    /\ childLock = NoHolder
    /\ SpawnTurn(c, proc)
    /\ UNCHANGED <<active_child, childLock, aheld>>
    /\ UNCHANGED <<nturns, nints, tthread, rdr, got_result, rheld, nout, interrupted>>
    /\ UNCHANGED <<variant, sessVars, routeVars, storeVars, cliVars, bgVars, errVars>>

\* lines 407-413: lock, guard.take(); with no previous child the guard is
\* dropped and the command is spawned (lines 415-434) without suspending
turn_start_take(c) ==
    /\ apc[c] = "ts_lock"
    /\ childLock = NoHolder
    /\ IF active_child = 0
          THEN /\ SpawnTurn(c, proc)
               /\ UNCHANGED <<active_child, childLock, aheld>>
          ELSE /\ aheld' = [aheld EXCEPT ![c] = active_child]
               /\ active_child' = 0
               /\ childLock' = c
               /\ apc' = [apc EXCEPT ![c] = "ts_kill"]
               /\ UNCHANGED <<proc, aturn>>
    /\ UNCHANGED <<nturns, nints, tthread, rdr, got_result, rheld, nout, interrupted>>
    /\ UNCHANGED <<variant, sessVars, routeVars, storeVars, cliVars, bgVars, errVars>>

\* lines 411-434: kill_child_process_tree(&mut prev) returns, the guard is
\* dropped, the command is spawned
turn_start_killed(c) ==
    /\ apc[c] = "ts_kill"
    /\ childLock' = NoHolder
    /\ SpawnTurn(c, kill_child_process_tree(aheld[c]))
    /\ aheld' = [aheld EXCEPT ![c] = IF apc'[c] = "idle" THEN 0 ELSE @]
    /\ UNCHANGED <<active_child, nturns, nints, tthread, rdr, got_result, rheld, nout,
                   interrupted>>
    /\ UNCHANGED <<variant, sessVars, routeVars, storeVars, cliVars, bgVars, errVars>>

\* lines 436-531: lock, *guard = Some(child); the reader task is spawned and
\* the call returns
turn_start_store(c) ==
    /\ apc[c] = "ts_store"
    /\ childLock = NoHolder
    /\ active_child' = aturn[c]
    /\ rdr' = [rdr EXCEPT ![aturn[c]] = "loop"]
    /\ apc' = [apc EXCEPT ![c] = "idle"]
    /\ aturn' = [aturn EXCEPT ![c] = 0]
    /\ aheld' = [aheld EXCEPT ![c] = 0]
    /\ UNCHANGED <<childLock, nturns, nints, proc, tthread, got_result, rheld,
                   nout, interrupted>>
    /\ UNCHANGED <<variant, sessVars, routeVars, storeVars, cliVars, bgVars, errVars>>

\* send_request("turn/interrupt"), lines 584-591; CliAdapter::kill, lines
\* 611-617, has the same body.  The call waits for the active-turn lock
turn_interrupt_begin(c) ==
    /\ AdCanStart(c)
    /\ nints < MaxInterrupts
    /\ nints' = nints + 1
    /\ apc' = [apc EXCEPT ![c] = "int_lock"]
    /\ UNCHANGED <<active_child, childLock, aheld, aturn, nturns, proc, tthread,
                   rdr, got_result, rheld, nout, interrupted>>
    /\ UNCHANGED <<variant, sessVars, routeVars, storeVars, cliVars, bgVars, errVars>>

\* lines 585-587 and 612-614: lock, child_guard.take()
turn_interrupt_take(c) ==
    /\ apc[c] = "int_lock"
    /\ childLock = NoHolder
    /\ IF active_child = 0
          THEN /\ apc' = [apc EXCEPT ![c] = "idle"]
               /\ UNCHANGED <<active_child, childLock, aheld>>
          ELSE /\ aheld' = [aheld EXCEPT ![c] = active_child]
               /\ active_child' = 0
               /\ childLock' = c
               /\ apc' = [apc EXCEPT ![c] = "int_kill"]
    /\ UNCHANGED <<aturn, nturns, nints, proc, tthread, rdr, got_result, rheld, nout,
                   interrupted>>
    /\ UNCHANGED <<variant, sessVars, routeVars, storeVars, cliVars, bgVars, errVars>>

\* lines 588-590 and 615-616: kill_child_process_tree(&mut child) returns,
\* the guard is dropped, the call returns
turn_interrupt_killed(c) ==
    /\ apc[c] = "int_kill"
    /\ proc' = kill_child_process_tree(aheld[c])
    /\ interrupted' = interrupted \cup {aheld[c]}
    /\ childLock' = NoHolder
    /\ aheld' = [aheld EXCEPT ![c] = 0]
    /\ apc' = [apc EXCEPT ![c] = "idle"]
    /\ UNCHANGED <<active_child, aturn, nturns, nints, tthread, rdr, got_result, rheld,
                   nout>>
    /\ UNCHANGED <<variant, sessVars, routeVars, storeVars, cliVars, bgVars, errVars>>

\* the turn's process ends by itself
proc_exit(k) ==
    /\ proc[k] = "running"
    /\ proc' = [proc EXCEPT ![k] = "exited"]
    /\ UNCHANGED <<active_child, childLock, apc, aheld, aturn, nturns, nints,
                   tthread, rdr, got_result, rheld, nout, interrupted>>
    /\ UNCHANGED <<variant, sessVars, routeVars, storeVars, cliVars, bgVars, errVars>>

\* lines 467-485 and 496-509: the event goes to the channel registered for
\* the turn's thread, or else to the emitter
\* line 116: format!("msg_{turn_id}")
msg_item_id(turn_id) == <<"msg_", turn_id>>

\* lines 118-201: the event built for a line that has a canonical method;
\* its params carry the thread id and the turn id, and the item id for a
\* delta of text
stream_json_event(method, thread_id, turn_id) ==
    IF method = "item/agentMessage/delta"
       THEN [m |-> method, thread |-> thread_id, turn |-> turn_id, id |-> 0,
             itemId |-> msg_item_id(turn_id)]
       ELSE Event(method, thread_id, turn_id, 0)

EmitTurnEvent(ev) ==
    IF ev.thread \in callbacks
       THEN Deliver(ev, "bg")
       ELSE Deliver(ev, "main")

\* the reader with its synthesized event always handed to the emitter
ReaderLoopEnds_MainOnly(k) ==
    /\ rdr' = [rdr EXCEPT ![k] = "lock"]
    /\ IF ~got_result[k]
          THEN Deliver(Event("turn/completed", tthread[k], k, 0), "main")
          ELSE UNCHANGED delivered

\* lines 488-510: the synthesized turn/completed, then the task goes for the
\* active-turn lock
ReaderLoopEnds(k) ==
    /\ rdr' = [rdr EXCEPT ![k] = "lock"]
    /\ IF ~got_result[k]
          THEN EmitTurnEvent(Event("turn/completed", tthread[k], k, 0))
          ELSE UNCHANGED delivered

\* extract_session_id_from_line, lines 204-216
extract_session_id_from_line(line) ==
    IF line.json /\ line.type = "system" /\ line.sub = "init"
       THEN line.session_id ELSE None

\* a capture that makes an entry for a thread the store does not have
capture_session_id_Creates(t, sid) ==
    IF sid.some
       THEN /\ store' = IF t \in DOMAIN store
                            THEN [store EXCEPT ![t] = [@ EXCEPT !.claude_session_id = sid,
                                                                !.updated_at = clock]]
                            ELSE insert(store, t, ThreadMetadata(sid, None, clock, clock, FALSE))
            /\ \E saved \in BOOLEAN : save(store', saved)
       ELSE UNCHANGED <<store, disk>>

\* lines 456-465: the session id of the line is stored with the thread and
\* the store saved; a failed save is only logged
capture_session_id(t, sid) ==
    IF sid.some /\ t \in DOMAIN store
       THEN /\ store' = [store EXCEPT ![t] = [@ EXCEPT !.claude_session_id = sid,
                                                       !.updated_at = clock]]
            /\ \E saved \in BOOLEAN : save(store', saved)
       ELSE UNCHANGED <<store, disk>>

\* the document save writes for a store
Saved(threads) == [kind |-> "doc", doc |-> to_string_pretty(threads)]

\* a reader task that a failed save of the session id ends at once
turn_reader_next_line_SaveFatal(k, line) ==
    /\ rdr[k] = "loop"
    /\ nout[k] < MaxTurnLines
    /\ nout' = [nout EXCEPT ![k] = @ + 1]
    /\ line.utf8
    /\ capture_session_id(tthread[k], extract_session_id_from_line(line))
    /\ IF disk' # Saved(store')
          THEN /\ rdr' = [rdr EXCEPT ![k] = "done"]
               /\ UNCHANGED <<got_result, delivered>>
          ELSE LET method == parse_stream_json_line(line) IN
               /\ UNCHANGED rdr
               /\ IF method # NoMethod
                     THEN /\ got_result' = [got_result EXCEPT
                                              ![k] = @ \/ method = "turn/completed"]
                          /\ EmitTurnEvent(stream_json_event(method, tthread[k], k))
                     ELSE UNCHANGED <<got_result, delivered>>
    /\ UNCHANGED <<active_child, childLock, apc, aheld, aturn, nturns, nints,
                   proc, tthread, rheld, interrupted>>
    /\ UNCHANGED <<variant, sessVars, callbacks, clock, resume, reply, nops, cliVars, bgVars, errVars>>

\* lines 455-486: one iteration of the reader task's loop on the line
\* next_line() yields; a line that is not UTF-8 makes next_line() fail, which
\* ends the loop.  Lines the process wrote before it died stay readable.
turn_reader_next_line(k, line) ==
    /\ rdr[k] = "loop"
    /\ nout[k] < MaxTurnLines
    /\ nout' = [nout EXCEPT ![k] = @ + 1]
    /\ IF ~line.utf8
          THEN /\ ReaderLoopEnds(k)
               /\ UNCHANGED <<got_result, store, disk>>
          ELSE LET method == parse_stream_json_line(line) IN
               /\ UNCHANGED rdr
               /\ capture_session_id(tthread[k], extract_session_id_from_line(line))
               /\ IF method # NoMethod
                     THEN /\ got_result' = [got_result EXCEPT
                                              ![k] = @ \/ method = "turn/completed"]
                          /\ EmitTurnEvent(stream_json_event(method, tthread[k], k))
                     ELSE UNCHANGED <<got_result, delivered>>
    /\ UNCHANGED <<active_child, childLock, apc, aheld, aturn, nturns, nints,
                   proc, tthread, rheld, interrupted>>
    /\ UNCHANGED <<variant, sessVars, callbacks, clock, resume, reply, nops, cliVars, bgVars, errVars>>

\* line 455: next_line() yields Ok(None): the process is gone
turn_reader_eof(k) ==
    /\ rdr[k] = "loop"
    /\ proc[k] = "exited"
    /\ ReaderLoopEnds(k)
    /\ UNCHANGED <<active_child, childLock, apc, aheld, aturn, nturns, nints,
                   proc, tthread, got_result, rheld, nout, interrupted>>
    /\ UNCHANGED <<variant, sessVars, callbacks, storeVars, cliVars, bgVars, errVars>>

\* lines 512-514: lock, guard.take()
turn_reader_take(k) ==
    /\ rdr[k] = "lock"
    /\ childLock = NoHolder
    /\ IF active_child = 0
          THEN /\ rdr' = [rdr EXCEPT ![k] = "done"]
               /\ UNCHANGED <<active_child, childLock, rheld>>
          ELSE /\ rheld' = [rheld EXCEPT ![k] = active_child]
               /\ active_child' = 0
               /\ childLock' = -k
               /\ rdr' = [rdr EXCEPT ![k] = "wait"]
    /\ UNCHANGED <<apc, aheld, aturn, nturns, nints, proc, tthread,
                   got_result, nout, interrupted>>
    /\ UNCHANGED <<variant, sessVars, routeVars, storeVars, cliVars, bgVars, errVars>>

\* lines 515-517: child.wait() returns, the guard is dropped, the task ends
turn_reader_waited(k) ==
    /\ rdr[k] = "wait"
    /\ proc[rheld[k]] = "exited"
    /\ childLock' = NoHolder
    /\ rheld' = [rheld EXCEPT ![k] = 0]
    /\ rdr' = [rdr EXCEPT ![k] = "done"]
    /\ UNCHANGED <<active_child, apc, aheld, aturn, nturns, nints, proc,
                   tthread, got_result, nout, interrupted>>
    /\ UNCHANGED <<variant, sessVars, routeVars, storeVars, cliVars, bgVars, errVars>>

adapter_register(t) ==
    /\ variant = "translating"
    /\ register_callback(t)
    /\ UNCHANGED <<variant, sessVars, adVars, storeVars, cliVars, bgVars, errVars>>

adapter_unregister(t) ==
    /\ variant = "translating"
    /\ t \in callbacks
    /\ unregister_callback(t)
    /\ UNCHANGED <<variant, sessVars, adVars, storeVars, cliVars, bgVars, errVars>>

\* ----------------------------------------------------------- specifications
\* a ready session used by NumCallers concurrent callers
NextSession ==
    \/ \E c \in Callers \ {0} : send_request_insert(c)
    \/ \E c \in Callers \ {0} : send_notification(c)
    \/ \E c \in Callers \ {0} : send_response(c)
    \/ \E c \in Callers \ {0} : write_message_lock(c)
    \/ \E c \in Callers \ {0} : write_message_write_all(c)
    \/ \E c \in Callers \ {0} : send_request_await(c)
    \/ proc_close_stdin
    \/ \E line \in Lines : reader_next_line(line)
    \/ reader_eof
    \/ \E t \in BgThreads : session_register(t)
    \/ \E t \in BgThreads : session_unregister(t)

SpecSession == InitSession /\ [][NextSession]_vars

\* spawn_workspace_session from the construction of the session to its return
NextHandshake ==
    \/ send_request_insert(0)
    \/ write_message_lock(0)
    \/ write_message_write_all(0)
    \/ send_request_await(0)
    \/ handshake_timeout
    \/ handshake_response
    \/ handshake_connected
    \/ cli_spawns_helper
    \/ proc_close_stdin
    \/ \E line \in Lines : reader_next_line(line)
    \/ reader_eof

SpecHandshake == InitHandshake /\ [][NextHandshake]_vars

\* the translating adapter under callers whose requests may overlap
NextAdapter ==
    \/ \E c \in AdCallers, t \in Threads : turn_start_begin(c, t)
    \/ \E c \in AdCallers : turn_start_take(c)
    \/ \E c \in AdCallers : turn_start_killed(c)
    \/ \E c \in AdCallers : turn_start_store(c)
    \/ \E c \in AdCallers : turn_interrupt_begin(c)
    \/ \E c \in AdCallers : turn_interrupt_take(c)
    \/ \E c \in AdCallers : turn_interrupt_killed(c)
    \/ \E k \in Turns : proc_exit(k)
    \/ \E k \in Turns, line \in TurnLines : turn_reader_next_line(k, line)
    \/ \E k \in Turns : turn_reader_eof(k)
    \/ \E k \in Turns : turn_reader_take(k)
    \/ \E k \in Turns : turn_reader_waited(k)
    \/ \E t \in BgThreads : adapter_register(t)
    \/ \E t \in BgThreads : adapter_unregister(t)

SpecAdapter == InitAdapter /\ [][NextAdapter]_vars

\* the translating adapter under turn/start calls that come one after the
\* other: a turn/start begins when no other turn/start is under way
NoTurnStartUnderWay ==
    \A d \in AdCallers : apc[d] \notin {"ts_lock", "ts_kill", "ts_store"}

turn_start_next(c, t) ==
    /\ NoTurnStartUnderWay
    /\ turn_start_begin(c, t)

NextAdapterSeq ==
    \/ \E c \in AdCallers, t \in Threads : turn_start_next(c, t)
    \/ \E c \in AdCallers : turn_start_take(c)
    \/ \E c \in AdCallers : turn_start_killed(c)
    \/ \E c \in AdCallers : turn_start_store(c)
    \/ \E c \in AdCallers : turn_interrupt_begin(c)
    \/ \E c \in AdCallers : turn_interrupt_take(c)
    \/ \E c \in AdCallers : turn_interrupt_killed(c)
    \/ \E k \in Turns : proc_exit(k)
    \/ \E k \in Turns, line \in TurnLines : turn_reader_next_line(k, line)
    \/ \E k \in Turns : turn_reader_eof(k)
    \/ \E k \in Turns : turn_reader_take(k)
    \/ \E k \in Turns : turn_reader_waited(k)
    \/ \E t \in BgThreads : adapter_register(t)
    \/ \E t \in BgThreads : adapter_unregister(t)

SpecAdapterSeq == InitAdapter /\ [][NextAdapterSeq]_vars

\* a turn/start made once the turn before it is over and its process reaped
turn_start_after_turn(c, t) ==
    /\ \A k \in Turns : rdr[k] \in {"none", "done"}
    /\ turn_start_next(c, t)

\* a ready session whose one caller is a background generation
NextBackground ==
    \/ bg_register
    \/ bg_turn_start
    \/ bg_turn_result
    \/ \E method \in BgMethods : bg_recv(method)
    \/ bg_timeout
    \/ bg_unregister
    \/ bg_archive
    \/ bg_return
    \/ write_message_lock(BgCaller)
    \/ write_message_write_all(BgCaller)
    \/ send_request_await(BgCaller)
    \/ proc_close_stdin
    \/ \E line \in Lines : reader_next_line(line)
    \/ reader_eof

SpecBackground == InitSession /\ [][NextBackground]_vars

\* the adapter with its thread requests, each turn started after the one
\* before it is over
NextStore ==
    \/ handle_thread_start
    \/ \E t \in Threads : handle_thread_resume(t)
    \/ \E t \in Threads : handle_thread_fork(t)
    \/ handle_thread_list
    \/ \E t \in Threads : handle_thread_archive(t)
    \/ \E t \in Threads, name \in Names : handle_thread_name_set(t, name)
    \/ now_epoch_advances
    \/ \E c \in AdCallers, t \in Threads : turn_start_after_turn(c, t)
    \/ \E c \in AdCallers : turn_start_take(c)
    \/ \E c \in AdCallers : turn_start_store(c)
    \/ \E k \in Turns : proc_exit(k)
    \/ \E k \in Turns : turn_reader_next_line(k, InitLine)
    \/ \E k \in Turns : turn_reader_eof(k)
    \/ \E k \in Turns : turn_reader_take(k)
    \/ \E k \in Turns : turn_reader_waited(k)

SpecStore == InitAdapter /\ [][NextStore]_vars

\* the adapter's request dispatch beside one turn after the other and the
\* registration of background callbacks
NextDispatch ==
    \/ handle_thread_start
    \/ \E method \in OtherMethods : send_request_other(method)
    \/ \E c \in AdCallers, t \in Threads : turn_start_after_turn(c, t)
    \/ \E c \in AdCallers : turn_start_take(c)
    \/ \E c \in AdCallers : turn_start_store(c)
    \/ \E k \in Turns : proc_exit(k)
    \/ \E k \in Turns, line \in {InitLine, ResultLine} : turn_reader_next_line(k, line)
    \/ \E k \in Turns : turn_reader_eof(k)
    \/ \E k \in Turns : turn_reader_take(k)
    \/ \E k \in Turns : turn_reader_waited(k)
    \/ \E t \in BgThreads : adapter_register(t)
    \/ \E t \in BgThreads : adapter_unregister(t)

SpecDispatch == InitAdapter /\ [][NextDispatch]_vars

\* a ready session whose process writes to both of its output pipes while
\* one caller sends requests
NextStderr ==
    \/ send_request_insert(BgCaller)
    \/ write_message_lock(BgCaller)
    \/ write_message_write_all(BgCaller)
    \/ send_request_await(BgCaller)
    \/ proc_close_stdin
    \/ \E line \in Lines : reader_next_line(line)
    \/ reader_eof
    \/ \E line \in ErrLines : stderr_next_line(line)
    \/ stderr_eof

SpecStderr == InitSession /\ [][NextStderr]_vars

\* the adapter under turns whose output holds init records, results and
\* other lines in any order
CaptureLines == {InitLine, InitLine2, DeltaLine}

NextCapture ==
    \/ handle_thread_start
    \/ \E c \in AdCallers, t \in Threads : turn_start_after_turn(c, t)
    \/ \E c \in AdCallers : turn_start_take(c)
    \/ \E c \in AdCallers : turn_start_store(c)
    \/ \E k \in Turns : proc_exit(k)
    \/ \E k \in Turns, line \in CaptureLines : turn_reader_next_line(k, line)
    \/ \E k \in Turns : turn_reader_eof(k)
    \/ \E k \in Turns : turn_reader_take(k)
    \/ \E k \in Turns : turn_reader_waited(k)

SpecCapture == InitAdapter /\ [][NextCapture]_vars

\* a ready session whose process sends notifications with every content of
\* params, while callbacks come and go
NextExtract ==
    \/ \E line \in ExtractLines : reader_next_line(line)
    \/ reader_eof
    \/ \E t \in BgThreads : session_register(t)
    \/ \E t \in BgThreads : session_unregister(t)

SpecExtract == InitSession /\ [][NextExtract]_vars

\* the event types and the subtypes (delta types, block types) a line of the
\* process may carry; "" stands for a member that is absent or no string
StreamTypes == {"system", "content_block_delta", "content_block_start",
                "tool_result", "result", "unknown_event", ""}
StreamSubs == {"init", "text_delta", "input_json_delta", "tool_use", "success", ""}
\* every such line, and a line of text that is not JSON
ParseLines == {TurnLine(TRUE, TRUE, type, sub) : type \in StreamTypes, sub \in StreamSubs}
              \cup {TurnLine(TRUE, FALSE, "", "")}

\* the adapter under turns whose processes write every kind of line
NextParse ==
    \/ \E c \in AdCallers, t \in Threads : turn_start_after_turn(c, t)
    \/ \E c \in AdCallers : turn_start_take(c)
    \/ \E c \in AdCallers : turn_start_store(c)
    \/ \E k \in Turns : proc_exit(k)
    \/ \E k \in Turns, line \in ParseLines : turn_reader_next_line(k, line)
    \/ \E k \in Turns : turn_reader_eof(k)
    \/ \E k \in Turns : turn_reader_take(k)
    \/ \E k \in Turns : turn_reader_waited(k)

SpecParse == InitAdapter /\ [][NextParse]_vars

\* a session of either variant
Init == InitSession \/ InitAdapter

Next == NextSession \/ NextAdapter

Spec == Init /\ [][Next]_vars

\* ------------------------------------------------- what the claims speak of
\* the ids handed out so far: an id is inserted into the pending table when
\* it is handed out and leaves it only when its slot is filled
IdsHandedOut == pending \cup {i \in Ids : slot[i] # NoValue}

\* the turn processes alive
Alive == {k \in Turns : proc[k] = "running"}

\* the turn/completed events delivered for turn k, wherever they went
Completed(k) == SelectSeq(delivered[k], LAMBDA d : d.ev.m = "turn/completed")

\* ------------------------------------------------------------------ claims
\* C1: a stdout line with a numeric id and a result or an error, read while
\* an entry for the id is pending, removes the entry in that step and hands
\* exactly that line to the waiting send_request; whatever lines follow
\* (repeated responses included), no request is resolved twice.
C1_ResolvedExactlyOnce ==
    /\ \A i \in Ids : resolved[i] <= 1
    /\ \A i \in Ids : answered[i] # NoValue =>
          /\ i \notin pending
          /\ resolved[i] = 1
          /\ slot[i] = answered[i]
    /\ \A c \in Callers \ {0} :
          (cop[c] = "request" /\ cpc[c] = "idle" /\ cres[c] # WriteError) =>
              /\ slot[cid[c]] # NoValue
              /\ cres[c] = slot[cid[c]]

\* a caller received the response read for its id, and a further line
\* (a repeated response among the possibilities) was read after it
C1_Witness ==
    \E c \in Callers \ {0} :
        /\ cop[c] = "request"
        /\ cpc[c] = "idle"
        /\ cres[c] = answered[cid[c]]
        /\ cres[c].roe = "error"
        /\ resolved[cid[c]] = 1
        /\ nlines = MaxLines

\* C2: over a sequence of turn/start calls at most one turn process is alive
\* at any instant, and when a turn/start spawns its process every process
\* spawned before has been killed or has exited.
C2_OneChildAtATime ==
    /\ [](Cardinality(Alive) <= 1)
    /\ [][\A k \in Turns :
             (proc[k] = "none" /\ proc'[k] = "running") =>
                 \A j \in Turns \ {k} : proc'[j] \in {"none", "exited"}]_vars

\* a turn/start has taken the first turn's child, killed it and spawned the
\* second turn's process, which runs alone; no interrupt was involved
C2_Witness ==
    \E c \in AdCallers :
        /\ apc[c] = "ts_store"
        /\ aheld[c] = 1
        /\ aturn[c] = 2
        /\ proc[1] = "exited"
        /\ proc[2] = "running"
        /\ nints = 0

\* C3: every turn that was spawned yields exactly one turn/completed: never
\* two, and one by the time its reader has left its loop.
C3_ExactlyOneCompleted ==
    \A k \in Turns :
        /\ Len(Completed(k)) <= 1
        /\ rdr[k] \in {"lock", "wait", "done"} => Len(Completed(k)) = 1

\* C4: while a background channel is registered for a thread, no event whose
\* thread id is that thread reaches the main sink: each is sent on the
\* registered channel, by the pass-through reader and by the adapter's turn
\* reader, its synthesized turn/completed included.  Events go to a channel
\* only when one is registered for their thread.
C4_RegisteredThreadOffMainSink ==
    \A k \in 0 .. MaxTurns : \A i \in 1 .. Len(delivered[k]) :
        delivered[k][i].covered <=> delivered[k][i].dest = "bg"

\* a channel is registered for t1, a turn on t1 has ended without a terminal
\* record, and its synthesized turn/completed went to the channel; nothing of
\* the turn reached the main sink
C4_Witness ==
    \E k \in Turns :
        /\ tthread[k] = "t1"
        /\ "t1" \in callbacks
        /\ ~got_result[k]
        /\ rdr[k] \in {"lock", "wait", "done"}
        /\ Len(Completed(k)) = 1
        /\ Completed(k)[1].dest = "bg"
        /\ MainSink(k) = <<>>

\* C5: once turn/interrupt has killed a turn's process tree and returned, no
\* event of that turn is delivered any more, to the main sink or to a
\* background channel.
C5_NothingAfterInterrupt ==
    \A k \in Turns : \A i \in 1 .. Len(delivered[k]) : ~delivered[k][i].late

\* C6: a turn/interrupt (or kill) issued while a turn's process runs kills it
\* and returns even if the process never exits by itself: the call never
\* waits for the active-turn lock behind a task that holds the lock until
\* that process has exited by itself.
C6_InterruptNotBehindWait ==
    \A c \in AdCallers :
        apc[c] = "int_lock" =>
            ~ \E k \in Turns : /\ childLock = -k
                               /\ rdr[k] = "wait"
                               /\ proc[rheld[k]] = "running"

\* C7: writes are mutually exclusive and whole lines reach the process: the
\* bytes on stdin are complete lines, each written once, except that the
\* last line may be cut short; a cut line is followed by nothing.
C7_WholeLines ==
    /\ Cardinality({c \in Callers : cpc[c] \in {"w1", "w2"}}) <= 1
    /\ \A c \in Callers : cpc[c] \in {"w1", "w2"} => stdinLock = c
    /\ \A i \in 1 .. Len(stdinBytes) :
          /\ stdinBytes[i][2] = 1 =>
                \/ i = Len(stdinBytes)
                \/ stdinBytes[i + 1] = <<stdinBytes[i][1], 2>>
          /\ stdinBytes[i][2] = 2 =>
                /\ i > 1
                /\ stdinBytes[i - 1] = <<stdinBytes[i][1], 1>>
    /\ \A i, j \in 1 .. Len(stdinBytes) : i < j => stdinBytes[i] # stdinBytes[j]

\* one caller is half way through its line, after the two lines of the
\* handshake, while another caller waits for the lock with its own message
C7_Witness ==
    \E c, d \in Callers \ {0} :
        /\ cpc[c] = "w2"
        /\ cpc[d] = "lock"
        /\ cmsg[d] # cmsg[c]
        /\ Len(stdinBytes) = 5
        /\ stdinBytes[5] = <<cmsg[c], 1>>

\* C8: once a send_request has returned or was abandoned by its caller, the
\* pending table holds no entry for its id.
C8_ReturnedNotPending ==
    \A i \in returned : i \notin pending

\* C9: no caller is left waiting forever: a send_request that waits for its
\* response can still be woken.  After the stdout reader has ended nothing
\* fills a slot any more, so a caller waiting then must have its value.
C9_WaiterCanReturn ==
    \A c \in Callers :
        (cpc[c] = "await" /\ rpc = "done") => slot[cid[c]] # NoValue

\* C10: ids are never reused and are handed out in strictly increasing order
\* from 1: the ids handed out so far are exactly 1 .. next_id - 1, two
\* callers never hold the same id, and each new id is larger than all before.
C10_UniqueIncreasingIds ==
    /\ [](/\ IdsHandedOut = 1 .. (next_id - 1)
          /\ \A c, d \in Callers :
                (c # d /\ cid[c] # 0 /\ cid[d] # 0) => cid[c] # cid[d])
    /\ [][\A c \in Callers :
             cid'[c] # cid[c] =>
                /\ cid'[c] = next_id
                /\ next_id' = next_id + 1
                /\ cid'[c] \notin IdsHandedOut
                /\ \A i \in IdsHandedOut : i < cid'[c]]_vars

\* two requests of different callers are outstanding at once
C10_Witness ==
    \E c, d \in Callers \ {0} :
        /\ c # d
        /\ cop[c] = "request" /\ cpc[c] = "await"
        /\ cop[d] = "request" /\ cpc[d] \in {"lock", "w1", "w2", "await"}
        /\ cid[c] < cid[d]
        /\ {cid[c], cid[d]} \subseteq pending

\* C11: every non-blank stdout line that is not valid JSON puts exactly one
\* cli/parseError event on the main sink, leaves the pending table and the
\* callback table alone and does not end the reader's loop; a blank line
\* produces no event.
C11_OneParseErrorPerMalformedLine ==
    [][nlines' = nlines + 1 =>
          /\ last_line'.form \in {"malformed", "bad_utf8"} =>
                /\ delivered' = [delivered EXCEPT ![0] =
                                   Append(@, Connected("cli/parseError"))]
                /\ pending' = pending
                /\ callbacks' = callbacks
                /\ rpc' = "read"
          /\ last_line'.form = "blank" =>
                /\ delivered' = delivered
                /\ rpc' = "read"]_vars

\* C12: a turn/start on a thread spawns its process with the resume directive
\* the store holds for the thread at that time -- none when the thread has no
\* session id yet, the id when it has one -- and an init record read from the
\* output of a turn on a thread of the store makes the store map the thread
\* to the record's session id.
C12_ResumeFollowsStore ==
    [][/\ nturns' = nturns + 1 =>
            LET t == tthread'[nturns'] IN
            resume'[nturns'] = IF t \in DOMAIN store
                                  THEN store[t].claude_session_id ELSE None
       /\ \A k \in Turns :
            (nout'[k] = nout[k] + 1 /\ tthread[k] \in DOMAIN store) =>
               store'[tthread[k]].claude_session_id = InitLine.session_id]_vars

C12_Witness ==
    /\ nturns = 2
    /\ tthread[1] = "t1" /\ tthread[2] = "t1"
    /\ resume[1] = None
    /\ resume[2] = Some(<<"s1">>)
    /\ proc[2] = "running"
    /\ "t1" \in DOMAIN store
    /\ store["t1"].claude_session_id = Some(<<"s1">>)

\* C13: when the handshake has timed out, the whole process tree of the CLI
\* has been killed -- the child and the processes it started --, the error
\* returned names the CLI (Cursor, Claude Code or Gemini) and no connected
\* event has been emitted.
C13_TimeoutKillsTree ==
    error.kind = "did not respond to initialize" =>
        /\ cli.child = "killed"
        /\ cli.helpers # "running"
        /\ error.names = display_name(cli.name)
        /\ \A i \in 1 .. Len(delivered[0]) : delivered[0][i].ev.m # "cli/connected"

\* C14: the connected event is emitted and the session returned only once the
\* initialize request has been written, a response to it that is not an error
\* has been received and the initialized notification has been written; when
\* the handshake has failed there is no connected event and no session.
C14_ConnectedOnlyAfterHandshake ==
    LET connected == \E i \in 1 .. Len(delivered[0]) :
                        delivered[0][i].ev.m = "cli/connected"
    IN /\ (connected \/ phase = "ready") =>
            /\ stdinBytes = <<<<1, 1>>, <<1, 2>>, <<2, 1>>, <<2, 2>>>>
            /\ cres[0] = Ok
            /\ slot[1] # NoValue
            /\ slot[1].roe # "error"
       /\ connected <=> phase = "ready"
       /\ error # NoError => ~connected /\ phase = "failed"

C16_WriteErrorReturnedAtOnce ==
    [][\A c \in Callers :
         (cpc[c] \in {"w1", "w2"} /\ stdinLock = c /\ ~stdinOpen /\ cpc'[c] # cpc[c]) =>
            /\ cres'[c] = WriteError
            /\ cpc'[c] = "idle"]_vars

C16_Witness ==
    \E c, d \in Callers :
        /\ cop[c] = "request" /\ cpc[c] = "idle" /\ cres[c] = WriteError
        /\ slot[cid[c]] = NoValue
        /\ cop[d] \in {"notification", "response"} /\ cpc[d] = "idle"
        /\ cres[d] = WriteError

\* C17: once thread/archive has been applied to a thread of the store, no
\* thread/list result contains the thread, the thread stays in the store and
\* stays archived, thread/resume on it succeeds, and archiving leaves its
\* session id as it was.
C17_ArchivedHiddenButKept ==
    [][/\ \A t \in DOMAIN store :
            store[t].archived => t \in DOMAIN store' /\ store'[t].archived
       /\ nops' = nops + 1 =>
            /\ reply'.method = "thread/list" =>
                  \A t \in DOMAIN store : store[t].archived => t \notin reply'.listed
            /\ (reply'.method = "thread/resume" /\ reply'.thread \in DOMAIN store) =>
                  reply'.result = "ok"
            /\ (reply'.method = "thread/archive" /\ reply'.thread \in DOMAIN store) =>
                  /\ reply'.thread \in DOMAIN store'
                  /\ store'[reply'.thread].archived
                  /\ store'[reply'.thread].claude_session_id =
                        store[reply'.thread].claude_session_id]_vars

C17_Witness ==
    /\ reply.method = "thread/list"
    /\ "t1" \in DOMAIN store
    /\ store["t1"].archived
    /\ store["t1"].claude_session_id = Some(<<"s1">>)
    /\ "t1" \notin reply.listed

\* C18: when thread/start, thread/fork, thread/archive or thread/name/set
\* returns success, the persisted document is the one written in that call
\* after the mutation: read back, it is the in-memory store as the call
\* leaves it.
C18_AcknowledgedMeansPersisted ==
    [][(/\ nops' = nops + 1
        /\ reply'.method \in {"thread/start", "thread/fork", "thread/archive",
                              "thread/name/set"}
        /\ reply'.result = "ok") =>
            /\ disk'.kind = "doc"
            /\ load(disk') = store']_vars

C18_Witness ==
    /\ reply.method = "thread/name/set"
    /\ reply.result = "ok"
    /\ reply.thread \in DOMAIN store
    /\ store[reply.thread].name = Some(<<"n">>)
    /\ store[reply.thread].claude_session_id = Some(<<"s1">>)
    /\ load(disk) = store

\* C19: for every content of the store, the document save writes, read back
\* by load, is the store: the same thread ids and for each the same session
\* id, name, created and updated times and archived flag.
C19_RoundTrip ==
    LET saved == [kind |-> "doc", doc |-> to_string_pretty(store)]
        loaded == load(saved)
    IN /\ DOMAIN loaded = DOMAIN store
       /\ \A t \in DOMAIN store :
            /\ loaded[t].claude_session_id = store[t].claude_session_id
            /\ loaded[t].name = store[t].name
            /\ loaded[t].created_at = store[t].created_at
            /\ loaded[t].updated_at = store[t].updated_at
            /\ loaded[t].archived = store[t].archived

C19_Witness ==
    /\ disk = [kind |-> "doc", doc |-> to_string_pretty(store)]
    /\ load(disk) = store
    /\ Cardinality(DOMAIN store) = 2
    /\ \E t \in DOMAIN store : store[t].claude_session_id.some /\ store[t].archived
    /\ \E t \in DOMAIN store : ~store[t].claude_session_id.some /\ ~store[t].archived
    /\ \E t \in DOMAIN store : store[t].updated_at # store[t].created_at

\* C20: the locks of the shared tables are held for lookups, inserts and
\* removals only: no call that is killing a process, and no task that is
\* awaiting a process's exit, holds the lock of the active-turn handle.  (The
\* pending table and the callback table are locked inside single steps only.)
C20_NoKillOrWaitUnderLock ==
    /\ \A c \in AdCallers : apc[c] \in {"ts_kill", "int_kill"} => childLock # c
    /\ \A k \in Turns : rdr[k] = "wait" => childLock # -k

\* the delivery a step has added to the session's record of deliveries
NewDelivery == delivered'[0][Len(delivered'[0])]
Delivers == Len(delivered'[0]) = Len(delivered[0]) + 1

\* the background operation's turn/start has been answered without error
BgTurnStarted ==
    /\ bpc \in {"collect", "collected", "unregistered", "done"}
    /\ bexit \notin {"turn/start failed", "turn/start error"}

\* C21 as stated: the callback is registered before the turn/start request is
\* sent, and no event of the turn is ever routed while no registration for
\* its thread exists.
C21_NoEventWithoutRegistration ==
    [][/\ (cop[BgCaller] = "none" /\ cop'[BgCaller] = "request") =>
            bthread \in callbacks
       /\ (Delivers /\ BgTurnStarted /\ NewDelivery.ev.thread = bthread) =>
            NewDelivery.dest = "bg"]_vars

\* C21, amended: the callback is registered before the turn/start request is
\* sent, and from then until the operation unregisters it every event of the
\* thread goes to the operation's channel, none to the main sink.
C21_NoEventBeforeUnregistration ==
    [][/\ (cop[BgCaller] = "none" /\ cop'[BgCaller] = "request") =>
            bthread \in callbacks
       /\ (Delivers /\ cop[BgCaller] # "none" /\ bpc \in {"registered", "collect", "collected"}
              /\ NewDelivery.ev.thread = bthread) =>
            NewDelivery.dest = "bg"]_vars

C21_Witness ==
    /\ bpc = "collect"
    /\ Len(BgChannel) = 1
    /\ Len(MainSink(0)) = 1

\* C22: however the background operation leaves its turn (turn/start failed
\* or answered with an error, turn/completed or turn/error received, channel
\* closed, timeout), the callback of its thread is out of the table from its
\* cleanup on, so before it returns; and removing a thread that is not in the
\* table leaves the table as it is.
C22_UnregisteredOnEveryWayOut ==
    [][/\ bpc' \in {"unregistered", "done"} =>
            /\ bthread \notin callbacks'
            /\ bexit' \in {"turn/start failed", "turn/start error", "turn/completed",
                           "turn/error", "channel closed", "timeout"}
       /\ (bpc \in {"registered", "collect", "collected"} /\ bpc' = bpc) =>
            bthread \in callbacks'
       /\ \A t \in Threads :
            (t \notin callbacks /\ unregister_callback(t)) => callbacks' = callbacks]_vars

C22_Witness ==
    /\ bpc = "done"
    /\ bexit = "turn/completed"
    /\ bthread \notin callbacks
    /\ Len(BgChannel) = 1

\* C23: when the save of a captured session id fails in a turn's reader task,
\* the task goes on: the line is still translated and delivered, the loop
\* continues, and a task that has left its loop has delivered the turn's
\* terminal event.
C23_SaveFailureNotFatal ==
    [][\A k \in Turns :
         /\ (nout'[k] = nout[k] + 1 /\ tthread[k] \in DOMAIN store
               /\ disk' # Saved(store')) =>
              /\ rdr'[k] = "loop"
              /\ store'[tthread[k]].claude_session_id = InitLine.session_id
              /\ Len(delivered'[k]) = Len(delivered[k]) + 1
              /\ delivered'[k][Len(delivered'[k])].ev.m = "turn/started"
         /\ rdr'[k] \in {"lock", "wait", "done"} => (Len(Completed(k)) >= 1)']_vars

C23_Witness ==
    /\ "t1" \in DOMAIN store
    /\ tthread[1] = "t1"
    /\ store["t1"].claude_session_id = Some(<<"s1">>)
    /\ disk.kind = "doc"
    /\ "t1" \in DOMAIN load(disk)
    /\ load(disk)["t1"].claude_session_id = None
    /\ nout[1] = 2
    /\ rdr[1] = "done"
    /\ Len(delivered[1]) = 3
    /\ Len(Completed(1)) = 1

\* C24: a request of the adapter whose method is not supported returns the
\* error "unsupported method: <method>" and changes nothing: the thread
\* store and its file, the active turn and the turn processes, and the
\* callback table are as before, and no event is delivered.
C24_UnsupportedMethodIsExplicit ==
    [][\A method \in OtherMethods \ (FixedMethods \cup HandledMethods) :
         (nops' = nops + 1 /\ reply'.method = method) =>
            /\ reply'.result = "error"
            /\ reply'.message = <<"unsupported method: ", method>>
            /\ UNCHANGED <<store, disk, active_child, childLock, proc, rdr,
                           callbacks, delivered>>]_vars

C24_Witness ==
    /\ reply = Unsupported("nonexistent/method")
    /\ active_child = 1
    /\ proc[1] = "running"
    /\ "t1" \in callbacks
    /\ "t1" \in DOMAIN store
    /\ Len(delivered[1]) = 1

\* C25: each stderr line that is not blank gives exactly one cli/stderr event
\* on the main sink and the diagnostic reader goes on; a blank line gives
\* none.
C25_OneEventPerStderrLine ==
    [][nerr' = nerr + 1 =>
          /\ last_err'.form # "blank" =>
                /\ delivered' = [delivered EXCEPT ![0] =
                                   Append(@, Connected("cli/stderr"))]
                /\ epc' = "read"
          /\ last_err'.form = "blank" =>
                /\ delivered' = delivered
                /\ epc' = "read"]_vars

\* C26: whatever way turn/start calls overlap, at most one turn process is
\* alive at any instant, and a turn/start spawns its process only when every
\* process spawned before has been killed and has exited.
C26_OneChildUnderOverlap ==
    /\ [](\A j, k \in Turns : (proc[j] = "running" /\ proc[k] = "running") => j = k)
    /\ [][\A k \in Turns :
             (proc[k] # "running" /\ proc'[k] = "running") =>
                 \A j \in Turns \ {k} : proc[j] # "running"]_vars

\* C27: the active-turn handle, when set, holds the child of the turn started
\* last, and the reader task of a turn takes from the handle, and waits on,
\* no child but its own turn's.
C27_HandleBelongsToItsTurn ==
    /\ active_child # 0 =>
          \A k \in Turns : proc[k] # "none" => k <= active_child
    /\ \A k \in Turns : rheld[k] # 0 => rheld[k] = k

\* the turn/started events turn k has delivered: one per init record read
Started(k) == SelectSeq(delivered[k], LAMBDA d : d.ev.m = "turn/started")

\* C28: in the step in which a turn's reader reads the first init record of
\* the output the store comes to hold a session id for the turn's thread,
\* before any later line is read; and once a turn has stored an id for its
\* thread, no later line of that turn stores another: the id stored by the
\* turn is the one of its first init record.
C28_FirstInitRecordStored ==
    [][\A k \in Turns :
         (nout'[k] = nout[k] + 1 /\ tthread[k] \in DOMAIN store) =>
            LET t == tthread[k] IN
            /\ (Len(Started(k)) = 0 /\ Len(Started(k)') = 1) =>
                  store'[t].claude_session_id.some
            /\ (Len(Started(k)) >= 1 /\ store[t].claude_session_id # resume[k]) =>
                  store'[t].claude_session_id = store[t].claude_session_id]_vars

\* the stdout reader has just taken a line that is a JSON object
ReadsJson == nlines' = nlines + 1 /\ last_line'.form = "json"

\* C29: a stdout message with a numeric id and a method and neither result
\* nor error is a request of the process: it is delivered once, to the
\* channel registered for its thread or else to the main sink, and it leaves
\* the pending table and every waiting caller's slot as they are, also when
\* an entry with its id is pending.
C29_RequestNeverResolves ==
    [][(/\ ReadsJson
        /\ last_line'.id # 0
        /\ last_line'.has_method
        /\ last_line'.roe = "none") =>
          LET thread_id == extract_thread_id(last_line') IN
          /\ UNCHANGED <<pending, slot, resolved>>
          /\ Delivers
          /\ NewDelivery.ev = Event("request", thread_id, 0, last_line'.id)
          /\ NewDelivery.dest = IF thread_id # NoThread /\ thread_id \in callbacks
                                   THEN "bg" ELSE "main"]_vars

C29_Witness ==
    /\ last_line \in EventLines
    /\ last_line.id = 2
    /\ 2 \in pending
    /\ slot[2] = NoValue
    /\ \E c \in Callers \ {0} : cid[c] = 2 /\ cpc[c] = "await"
    /\ Len(delivered[0]) >= 1
    /\ delivered[0][Len(delivered[0])].ev = Event("request", "t1", 0, 2)
    /\ delivered[0][Len(delivered[0])].dest = "bg"

\* C30: a stdout message with a numeric id and none of method, result and
\* error resolves and removes the pending entry with that id if there is one,
\* the waiting send_request getting that very message; if there is none the
\* message is dropped: nothing is delivered and nothing changes.
C30_AcknowledgmentResolves ==
    [][(/\ ReadsJson
        /\ last_line'.id # 0
        /\ ~last_line'.has_method
        /\ last_line'.roe = "none") =>
          LET id == last_line'.id IN
          /\ UNCHANGED delivered
          /\ id \in pending =>
                /\ pending' = pending \ {id}
                /\ slot' = [slot EXCEPT ![id] = last_line']
                /\ resolved' = [resolved EXCEPT ![id] = @ + 1]
          /\ id \notin pending => UNCHANGED <<pending, slot, resolved>>
       /\ \A c \in Callers \ {0} :
            (cpc[c] = "await" /\ cpc'[c] = "idle" /\ slot[cid[c]] # NoValue) =>
                cres'[c] = slot[cid[c]]]_vars

C30_Witness ==
    \E c \in Callers \ {0} :
        /\ cop[c] = "request"
        /\ cpc[c] = "idle"
        /\ cid[c] = 2
        /\ 2 \notin pending
        /\ cres[c] = [form |-> "json", id |-> 2, has_method |-> FALSE, roe |-> "none",
                      params |-> NoParams]
        /\ last_line = cres[c]
        /\ resolved[2] = 1

\* C31: a response line (numeric id with a result or an error) whose id has
\* no pending entry is dropped: nothing is delivered to the main sink or to a
\* channel, the pending table, the slots and the callers are as before, and
\* the reader goes on to the next line.
C31_CorrelationMissDropped ==
    [][(/\ ReadsJson
        /\ last_line'.id # 0
        /\ last_line'.roe # "none"
        /\ last_line'.id \notin pending) =>
          /\ UNCHANGED <<pending, slot, resolved, delivered, callbacks>>
          /\ UNCHANGED <<cpc, cres, cid>>
          /\ rpc' = "read"]_vars

C31_Witness ==
    /\ last_line \in ResponseLines
    /\ last_line.roe = "result"
    /\ last_line.id = 3
    /\ next_id = 3
    /\ pending = {2}
    /\ slot[3] = NoValue
    /\ slot[2] = NoValue
    /\ rpc = "read"
    /\ \E c \in Callers \ {0} : cid[c] = 2 /\ cpc[c] = "await"

\* C32: the thread id read from a message is the string under
\* params.threadId, else the one under params.thread_id, else the one under
\* params.thread.id, and none when params is absent or holds none of them: a
\* thread id given as a string under one of the three spellings is found
\* whatever the other members hold.
C32_ThreadIdFoundUnderAnySpelling ==
    [][(nlines' = nlines + 1 /\ last_line' \in ExtractLines) =>
          LET params == last_line'.params
              found == IF params = AbsentParams THEN NoThread
                       ELSE IF params.threadId \in Threads THEN params.threadId
                       ELSE IF params.thread_id \in Threads THEN params.thread_id
                       ELSE IF params.thread \in Threads THEN params.thread
                       ELSE NoThread
          IN /\ Delivers
             /\ NewDelivery.ev.thread = found]_vars

InFlight(i) ==
    {c \in Callers \ {0} : /\ cop[c] = "request"
                            /\ cid[c] = i
                            /\ cpc[c] \in {"lock", "w1", "w2", "await"}}

\* C34: the entry of a request is in the pending table before any part of
\* its line is written and stays there until a response fills its slot, so a
\* response read for a request that is still in flight and not yet answered
\* always resolves it: it is never dropped for want of an entry.
C34_RegisteredBeforeWritten ==
    /\ [](\A i \in Ids : (InFlight(i) # {} /\ slot[i] = NoValue) => i \in pending)
    /\ [][\A c \in Callers \ {0} :
             (cop'[c] = "request" /\ stdinBytes' # stdinBytes
                /\ stdinBytes'[Len(stdinBytes')][1] = cmsg[c]) =>
                   (cid[c] \in pending \/ slot[cid[c]] # NoValue)]_vars
    /\ [][(/\ ReadsJson
            /\ last_line'.id # 0
            /\ last_line'.roe # "none"
            /\ last_line'.id \in Ids
            /\ InFlight(last_line'.id) # {}
            /\ slot[last_line'.id] = NoValue) =>
              /\ slot'[last_line'.id] = last_line'
              /\ last_line'.id \notin pending']_vars

C34_Witness ==
    \E c \in Callers \ {0} :
        /\ cop[c] = "request"
        /\ cpc[c] = "await"
        /\ cid[c] = 2
        /\ Len(stdinBytes) = 6
        /\ slot[2] = last_line
        /\ last_line.roe = "result"
        /\ 2 \notin pending
        /\ resolved[2] = 1

\* C35: a line read from a process's stdout has at most one destination: in
\* the step that reads it at most one thing happens -- one pending request is
\* resolved, or one event is delivered, to a channel or to the main sink --
\* and never two of them.
C35_AtMostOneDestination ==
    [][(nlines' = nlines + 1 \/ \E k \in Turns : nout'[k] = nout[k] + 1) =>
          LET grown == {k \in 0 .. MaxTurns : delivered'[k] # delivered[k]}
              done == {i \in Ids : resolved'[i] # resolved[i]}
          IN /\ Cardinality(grown) + Cardinality(done) <= 1
             /\ \A k \in grown :
                   /\ Len(delivered'[k]) = Len(delivered[k]) + 1
                   /\ SubSeq(delivered'[k], 1, Len(delivered[k])) = delivered[k]
                   /\ delivered'[k][Len(delivered'[k])].dest \in {"bg", "main"}
             /\ \A i \in done : resolved'[i] = resolved[i] + 1]_vars

C35_Witness ==
    /\ last_line \in OddLines
    /\ last_line.has_method
    /\ last_line.roe = "result"
    /\ extract_thread_id(last_line) \in callbacks
    /\ slot[last_line.id] = last_line
    /\ resolved[last_line.id] = 1
    /\ delivered[0] = <<Connected("cli/connected")>>

\* C36: once the turn/completed of a turn's result record has been
\* delivered, no further event of that turn is delivered: a turn/completed
\* is the last event of its turn.
C36_TerminalEventIsLast ==
    \A k \in Turns :
        \A i \in 1 .. Len(delivered[k]) :
            delivered[k][i].ev.m = "turn/completed" => i = Len(delivered[k])

\* C37: when thread/start, thread/fork, thread/archive or thread/name/set
\* returns an error, the in-memory store is as it was before the call, so
\* the failed mutation is not seen by later requests.
C37_FailedMutationNotVisible ==
    [][(/\ nops' = nops + 1
        /\ reply'.method \in {"thread/start", "thread/fork", "thread/archive",
                              "thread/name/set"}
        /\ reply'.result = "error") =>
            store' = store]_vars

\* C38: only thread/start and thread/fork add a thread id to the store;
\* thread/resume, thread/archive and thread/name/set on a thread id that is
\* not in the store, a turn/start, and the capture of a session id from the
\* output of a turn on such a thread leave the store exactly as it was.
C38_OnlyStartAndForkCreate ==
    [][/\ DOMAIN store' # DOMAIN store =>
            /\ nops' = nops + 1
            /\ reply'.method \in {"thread/start", "thread/fork"}
            /\ DOMAIN store' = DOMAIN store \cup {reply'.thread}
       /\ (/\ nops' = nops + 1
           /\ reply'.method \in {"thread/resume", "thread/archive", "thread/name/set"}
           /\ reply'.thread \notin DOMAIN store) => store' = store
       /\ nturns' = nturns + 1 => store' = store
       /\ \A k \in Turns :
            (nout'[k] = nout[k] + 1 /\ tthread[k] \notin DOMAIN store) =>
                store' = store]_vars

C38_Witness ==
    /\ DOMAIN store = {"t1"}
    /\ reply.method = "thread/archive"
    /\ reply.thread = "t2"
    /\ ~store["t1"].archived
    /\ tthread[1] = "t2"
    /\ nout[1] >= 1
    /\ Len(Started(1)) >= 1

\* C39: thread/fork on a thread S of the store adds exactly one thread, under
\* an id the store did not have, with no session id, not archived and named
\* after S with " (fork)" appended (no name if S has none); S and every
\* other record are unchanged, and a turn/start on a thread without a
\* session id spawns without a resume directive.  thread/fork on an unknown
\* id fails with "thread not found" and changes neither store nor file.
C39_ForkAddsOneFreshThread ==
    [][/\ \A source_id \in Threads :
            handle_thread_fork(source_id) =>
               IF source_id \in DOMAIN store
                  THEN LET new_id == reply'.thread IN
                       /\ new_id \notin DOMAIN store
                       /\ DOMAIN store' = DOMAIN store \cup {new_id}
                       /\ \A t \in DOMAIN store : store'[t] = store[t]
                       /\ store'[new_id].claude_session_id = None
                       /\ ~store'[new_id].archived
                       /\ store'[new_id].name =
                             IF store[source_id].name.some
                                THEN Some(store[source_id].name.text \o <<" (fork)">>)
                                ELSE None
                  ELSE /\ reply'.result = "error"
                       /\ reply'.message = "thread not found"
                       /\ UNCHANGED <<store, disk>>
       /\ nturns' = nturns + 1 =>
            LET t == tthread'[nturns'] IN
            (t \in DOMAIN store /\ store[t].claude_session_id = None) =>
                resume'[nturns'] = None]_vars

C39_Witness ==
    /\ DOMAIN store = {"t1", "t2"}
    /\ store["t1"].claude_session_id = Some(<<"s1">>)
    /\ store["t1"].name = Some(<<"n">>)
    /\ store["t2"].claude_session_id = None
    /\ store["t2"].name = Some(<<"n", " (fork)">>)
    /\ reply.method = "thread/fork"
    /\ reply.thread = "t2"
    /\ nturns = 2
    /\ tthread[2] = "t2"
    /\ resume[2] = None
    /\ proc[2] = "running"

\* C40: the store only grows and its records only move forward: a thread id
\* returned by a successful thread/start or thread/fork is in the store and
\* no step removes a thread; an archived thread stays archived; a thread's
\* created time never changes; a session id once recorded for a thread is
\* never set back to none.
C40_StoreMonotone ==
    [][/\ \A t \in DOMAIN store :
            /\ t \in DOMAIN store'
            /\ store[t].archived => store'[t].archived
            /\ store'[t].created_at = store[t].created_at
            /\ store[t].claude_session_id.some => store'[t].claude_session_id.some
       /\ (/\ nops' = nops + 1
           /\ reply'.method \in {"thread/start", "thread/fork"}
           /\ reply'.result = "ok") => reply'.thread \in DOMAIN store']_vars

C40_Witness ==
    /\ DOMAIN store = {"t1", "t2"}
    /\ store["t1"].archived
    /\ store["t1"].claude_session_id = Some(<<"s1">>)
    /\ store["t1"].created_at = 1
    /\ store["t1"].updated_at = 2
    /\ store["t2"].created_at = 2
    /\ reply.method = "thread/start"
    /\ reply.result = "ok"
    /\ reply.thread = "t2"
====
